---- MODULE Spec2Model ----
(***************************************************************************)
(* A state-machine model of the ERC20Token ledger of src/src/lib.rs.       *)
(*                                                                         *)
(* The storage struct (sol_storage!) is the state.  Every external method  *)
(* is a pure operator  op(S, sender, args)  that maps a storage record S   *)
(* to the pair  [st |-> storage afterwards, res |-> returned value].       *)
(* Storage writes are applied in program order and stay applied when a     *)
(* later statement returns Err: the methods contain no rollback code.      *)
(* An action applies one operator to the current storage.                  *)
(*                                                                         *)
(* The 256-bit word is scaled down to the range 0..U256_MAX so that every  *)
(* checked_add / checked_sub outcome, overflow included, is enumerated.    *)
(* The block time msg::epoch() is the variable epoch, which only grows.    *)
(* Fields with no effect on behaviour (name, symbol, decimals,             *)
(* contract_version, initialized_at, minted_amounts, minting_period_*,     *)
(* snapshots) are left out; events are not modelled.                       *)
(***************************************************************************)
EXTENDS Integers, Sequences, FiniteSets, TLC

\* ------------------------------------------------------------------------
\* Word, addresses, roles
\* ------------------------------------------------------------------------

\* U256::MAX, scaled to a two-bit word
U256_MAX == 3

U256 == 0..U256_MAX

\* Address::ZERO
ZERO == "0x0"

\* the accounts that hold tokens; Callers are the ones that send calls
Users == {"a1", "a2", "a3"}

Callers == {"a1", "a2"}

Address == {ZERO} \cup Users

MINTER_ROLE == "MINTER_ROLE"

PAUSER_ROLE == "PAUSER_ROLE"

ADMIN_ROLE == "ADMIN_ROLE"

DEFAULT_ADMIN_ROLE == "DEFAULT_ADMIN_ROLE"

Roles == {DEFAULT_ADMIN_ROLE, ADMIN_ROLE, MINTER_ROLE, PAUSER_ROLE}

\* the delay initialize stores: 48 * 60 * 60 seconds in the source, scaled
\* with the word so that epoch + delay fits for early epochs and overflows
\* for late ones
DEFAULT_OWNERSHIP_DELAY == 2

\* longest list handed to a batch call
MaxBatch == 2

\* Option::None of checked_add / checked_sub
None == 0 - 1

checked_add(a, b) == IF a + b > U256_MAX THEN None ELSE a + b

checked_sub(a, b) == IF a < b THEN None ELSE a - b

\* ------------------------------------------------------------------------
\* Results
\* ------------------------------------------------------------------------

Ok == [kind |-> "Ok", args |-> <<>>]

Err(k, a) == [kind |-> k, args |-> a]

\* Ok(v) of a call that returns a value
OkWith(v) == [kind |-> "Ok", args |-> <<v>>]

Ret(S, r) == [st |-> S, res |-> r]

\* ------------------------------------------------------------------------
\* State
\* ------------------------------------------------------------------------

VARIABLES
    total_supply,
    balances,
    allowances,
    initialized,
    owner,
    paused,
    supply_cap,
    supply_cap_enabled,
    roles,
    role_admins,
    blacklisted,
    blacklist_enabled,
    next_snapshot_id,
    current_snapshot_id,
    pending_owner,
    ownership_unlock_time,
    ownership_transfer_delay,
    emergency_admin,
    guardian,
    guardian_enabled,
    transfer_whitelist,
    transfer_restrictions_enabled,
    last,
    epoch

storage == <<total_supply, balances, allowances, initialized, owner, paused,
             supply_cap, supply_cap_enabled, roles, role_admins, blacklisted,
             blacklist_enabled, next_snapshot_id, current_snapshot_id,
             pending_owner, ownership_unlock_time, ownership_transfer_delay,
             emergency_admin, guardian, guardian_enabled, transfer_whitelist,
             transfer_restrictions_enabled>>

vars == <<storage, last, epoch>>

\* the storage struct as one record
State ==
    [ total_supply |-> total_supply,
      balances |-> balances,
      allowances |-> allowances,
      initialized |-> initialized,
      owner |-> owner,
      paused |-> paused,
      supply_cap |-> supply_cap,
      supply_cap_enabled |-> supply_cap_enabled,
      roles |-> roles,
      role_admins |-> role_admins,
      blacklisted |-> blacklisted,
      blacklist_enabled |-> blacklist_enabled,
      next_snapshot_id |-> next_snapshot_id,
      current_snapshot_id |-> current_snapshot_id,
      pending_owner |-> pending_owner,
      ownership_unlock_time |-> ownership_unlock_time,
      ownership_transfer_delay |-> ownership_transfer_delay,
      emergency_admin |-> emergency_admin,
      guardian |-> guardian,
      guardian_enabled |-> guardian_enabled,
      transfer_whitelist |-> transfer_whitelist,
      transfer_restrictions_enabled |-> transfer_restrictions_enabled ]

\* zero-filled storage of a freshly deployed contract
ZeroStorage ==
    [ total_supply |-> 0,
      balances |-> [a \in Address |-> 0],
      allowances |-> [a \in Address |-> [b \in Address |-> 0]],
      initialized |-> FALSE,
      owner |-> ZERO,
      paused |-> FALSE,
      supply_cap |-> 0,
      supply_cap_enabled |-> FALSE,
      roles |-> [r \in Roles |-> [a \in Address |-> FALSE]],
      role_admins |-> [r \in Roles |-> DEFAULT_ADMIN_ROLE],
      blacklisted |-> [a \in Address |-> FALSE],
      blacklist_enabled |-> FALSE,
      next_snapshot_id |-> 0,
      current_snapshot_id |-> 0,
      pending_owner |-> ZERO,
      ownership_unlock_time |-> 0,
      ownership_transfer_delay |-> 0,
      emergency_admin |-> ZERO,
      guardian |-> ZERO,
      guardian_enabled |-> FALSE,
      transfer_whitelist |-> [a \in Address |-> FALSE],
      transfer_restrictions_enabled |-> FALSE ]

\* ------------------------------------------------------------------------
\* Initialization
\* ------------------------------------------------------------------------

\* initialize that does not look at the initialized flag
initialize_again(S, token_decimals, initial_supply, initial_owner) ==
    IF initial_owner = ZERO THEN Ret(S, Err("ZeroAddress", <<>>))
    ELSE IF token_decimals = 0 THEN Ret(S, Err("InvalidAmount", <<>>))
    ELSE Ret([S EXCEPT !.owner = initial_owner,
                       !.balances[initial_owner] = initial_supply,
                       !.total_supply = initial_supply,
                       !.initialized = TRUE], Ok)

initialize(S, token_decimals, initial_supply, initial_owner) ==
    IF S.initialized THEN Ret(S, Err("AlreadyInitialized", <<>>))
    ELSE IF initial_owner = ZERO THEN Ret(S, Err("ZeroAddress", <<>>))
    ELSE IF token_decimals = 0 THEN Ret(S, Err("InvalidAmount", <<>>))
    ELSE
      LET S1 == [S EXCEPT
                   !.owner = initial_owner,
                   !.role_admins = [r \in Roles |-> ADMIN_ROLE],
                   !.roles = [r \in Roles |->
                                IF r \in {ADMIN_ROLE, MINTER_ROLE, PAUSER_ROLE}
                                THEN [S.roles[r] EXCEPT ![initial_owner] = TRUE]
                                ELSE S.roles[r]],
                   !.supply_cap = U256_MAX,
                   !.supply_cap_enabled = FALSE,
                   !.next_snapshot_id = 1,
                   !.current_snapshot_id = 0,
                   !.ownership_transfer_delay = DEFAULT_OWNERSHIP_DELAY,
                   !.blacklist_enabled = FALSE,
                   !.transfer_restrictions_enabled = FALSE,
                   !.guardian_enabled = FALSE]
      IN IF initial_supply > 0
         THEN IF S1.supply_cap_enabled /\ initial_supply > S1.supply_cap
              THEN Ret(S1, Err("SupplyCapExceeded", <<0, S1.supply_cap>>))
              ELSE Ret([S1 EXCEPT !.balances[initial_owner] = initial_supply,
                                  !.total_supply = initial_supply,
                                  !.initialized = TRUE], Ok)
         ELSE Ret([S1 EXCEPT !.initialized = TRUE], Ok)

\* ------------------------------------------------------------------------
\* Internal helpers
\* ------------------------------------------------------------------------

\* only_owner that also lets an ADMIN_ROLE holder through
only_owner_or_admin(S, sender) ==
    IF sender # S.owner /\ ~S.roles[ADMIN_ROLE][sender]
    THEN Err("NotOwner", <<sender, S.owner>>)
    ELSE Ok

only_owner(S, sender) ==
    IF sender # S.owner THEN Err("NotOwner", <<sender, S.owner>>) ELSE Ok

internal_transfer(S, from, to, amount) ==
    LET from_balance == S.balances[from] IN
    IF from_balance < amount
    THEN Ret(S, Err("InsufficientBalance", <<from_balance, amount>>))
    ELSE LET new_from_balance == checked_sub(from_balance, amount)
             to_balance == S.balances[to]
             new_to_balance == checked_add(to_balance, amount)
         IN IF new_from_balance = None
            THEN Ret(S, Err("InsufficientBalance", <<from_balance, amount>>))
            ELSE IF new_to_balance = None
            THEN Ret(S, Err("InvalidAmount", <<>>))
            \* both values were read before either write; the write to
            \* `to` is the later one
            ELSE Ret([S EXCEPT !.balances =
                        [[S.balances EXCEPT ![from] = new_from_balance]
                            EXCEPT ![to] = new_to_balance]], Ok)

\* ------------------------------------------------------------------------
\* ERC-20 core methods
\* ------------------------------------------------------------------------

\* transfer that reads amount 0 as "the whole balance"
transfer_zero_is_all(S, sender, to, amount) ==
    IF S.paused THEN Ret(S, Err("ContractPaused", <<>>))
    ELSE IF to = ZERO THEN Ret(S, Err("ZeroAddress", <<>>))
    ELSE IF amount = 0 THEN internal_transfer(S, sender, to, S.balances[sender])
    ELSE internal_transfer(S, sender, to, amount)

\* transfer without the recipient check
transfer_to_any(S, sender, to, amount) ==
    IF S.paused THEN Ret(S, Err("ContractPaused", <<>>))
    ELSE IF amount = 0 THEN Ret(S, Ok)
    ELSE internal_transfer(S, sender, to, amount)

transfer(S, sender, to, amount) ==
    LET from == sender IN
    IF S.paused THEN Ret(S, Err("ContractPaused", <<>>))
    ELSE IF to = ZERO THEN Ret(S, Err("ZeroAddress", <<>>))
    ELSE IF amount = 0 THEN Ret(S, Ok)
    ELSE internal_transfer(S, from, to, amount)

\* approve that records the allowance under the spender's name
approve_for_spender(S, sender, spender, amount) ==
    LET owner_ == sender IN
    IF spender = ZERO THEN Ret(S, Err("ZeroAddress", <<>>))
    ELSE Ret([S EXCEPT !.allowances[spender][owner_] = amount], Ok)

approve(S, sender, spender, amount) ==
    LET owner_ == sender IN
    IF spender = ZERO THEN Ret(S, Err("ZeroAddress", <<>>))
    ELSE Ret([S EXCEPT !.allowances[owner_][spender] = amount], Ok)

\* transfer_from that spends what allowance there is and moves the amount
\* all the same
transfer_from_unchecked(S, sender, from, to, amount) ==
    IF S.paused THEN Ret(S, Err("ContractPaused", <<>>))
    ELSE IF to = ZERO THEN Ret(S, Err("ZeroAddress", <<>>))
    ELSE IF amount = 0 THEN Ret(S, Ok)
    ELSE internal_transfer(
            [S EXCEPT !.allowances[from][sender] =
                 IF @ < amount THEN 0 ELSE @ - amount],
            from, to, amount)

transfer_from(S, sender, from, to, amount) ==
    LET spender == sender IN
    IF S.paused THEN Ret(S, Err("ContractPaused", <<>>))
    ELSE IF to = ZERO THEN Ret(S, Err("ZeroAddress", <<>>))
    ELSE IF amount = 0 THEN Ret(S, Ok)
    ELSE LET current_allowance == S.allowances[from][spender]
             new_allowance == checked_sub(current_allowance, amount)
         IN IF current_allowance < amount \/ new_allowance = None
            THEN Ret(S, Err("InsufficientAllowance",
                            <<current_allowance, amount>>))
            \* the allowance is stored, then the transfer runs on that storage;
            \* its Err is returned as is
            ELSE internal_transfer(
                    [S EXCEPT !.allowances[from][spender] = new_allowance],
                    from, to, amount)

increase_allowance(S, sender, spender, delta) ==
    LET owner_ == sender IN
    IF spender = ZERO THEN Ret(S, Err("ZeroAddress", <<>>))
    ELSE LET current_allowance == S.allowances[owner_][spender]
             new_allowance == checked_add(current_allowance, delta)
         IN IF new_allowance = None THEN Ret(S, Err("InvalidAmount", <<>>))
            ELSE Ret([S EXCEPT !.allowances[owner_][spender] = new_allowance],
                     Ok)

\* decrease_allowance that stops at zero instead of failing
decrease_allowance_floor(S, sender, spender, delta) ==
    LET owner_ == sender IN
    IF spender = ZERO THEN Ret(S, Err("ZeroAddress", <<>>))
    ELSE LET current_allowance == S.allowances[owner_][spender] IN
         Ret([S EXCEPT !.allowances[owner_][spender] =
                  IF current_allowance < delta THEN 0
                  ELSE current_allowance - delta], Ok)

decrease_allowance(S, sender, spender, delta) ==
    LET owner_ == sender IN
    IF spender = ZERO THEN Ret(S, Err("ZeroAddress", <<>>))
    ELSE LET current_allowance == S.allowances[owner_][spender]
             new_allowance == checked_sub(current_allowance, delta)
         IN IF current_allowance < delta \/ new_allowance = None
            THEN Ret(S, Err("InsufficientAllowance",
                            <<current_allowance, delta>>))
            ELSE Ret([S EXCEPT !.allowances[owner_][spender] = new_allowance],
                     Ok)

\* ------------------------------------------------------------------------
\* Mint and burn
\* ------------------------------------------------------------------------

mint(S, sender, to, amount) ==
    IF only_owner(S, sender).kind # "Ok" THEN Ret(S, only_owner(S, sender))
    ELSE IF S.paused THEN Ret(S, Err("ContractPaused", <<>>))
    ELSE IF to = ZERO THEN Ret(S, Err("ZeroAddress", <<>>))
    ELSE IF amount = 0 THEN Ret(S, Ok)
    ELSE LET new_balance == checked_add(S.balances[to], amount) IN
         IF new_balance = None THEN Ret(S, Err("InvalidAmount", <<>>))
         ELSE LET S1 == [S EXCEPT !.balances[to] = new_balance]
                  new_supply == checked_add(S1.total_supply, amount)
              IN \* the balance is already stored when the supply is checked
                 IF new_supply = None THEN Ret(S1, Err("InvalidAmount", <<>>))
                 ELSE Ret([S1 EXCEPT !.total_supply = new_supply], Ok)

\* burn without the pause check
burn_unpaused(S, sender, amount) ==
    LET current_balance == S.balances[sender] IN
    IF amount = 0 THEN Ret(S, Ok)
    ELSE IF current_balance < amount
    THEN Ret(S, Err("InsufficientBalance", <<current_balance, amount>>))
    ELSE IF checked_sub(S.total_supply, amount) = None
    THEN Ret(S, Err("InvalidAmount", <<>>))
    ELSE Ret([S EXCEPT !.balances[sender] = current_balance - amount,
                       !.total_supply = S.total_supply - amount], Ok)

burn(S, sender, amount) ==
    LET from == sender IN
    IF S.paused THEN Ret(S, Err("ContractPaused", <<>>))
    ELSE IF amount = 0 THEN Ret(S, Ok)
    ELSE LET current_balance == S.balances[from]
             new_balance == checked_sub(current_balance, amount)
             new_supply == checked_sub(S.total_supply, amount)
         IN IF current_balance < amount \/ new_balance = None
            THEN Ret(S, Err("InsufficientBalance", <<current_balance, amount>>))
            ELSE IF new_supply = None THEN Ret(S, Err("InvalidAmount", <<>>))
            ELSE Ret([S EXCEPT !.balances[from] = new_balance,
                               !.total_supply = new_supply], Ok)

burn_from(S, sender, from, amount) ==
    LET spender == sender IN
    IF S.paused THEN Ret(S, Err("ContractPaused", <<>>))
    ELSE IF from = ZERO THEN Ret(S, Err("ZeroAddress", <<>>))
    ELSE IF amount = 0 THEN Ret(S, Ok)
    ELSE LET current_allowance == S.allowances[from][spender]
             new_allowance == checked_sub(current_allowance, amount)
         IN IF current_allowance < amount \/ new_allowance = None
            THEN Ret(S, Err("InsufficientAllowance",
                            <<current_allowance, amount>>))
            ELSE LET S1 == [S EXCEPT
                                !.allowances[from][spender] = new_allowance]
                     current_balance == S1.balances[from]
                     new_balance == checked_sub(current_balance, amount)
                     new_supply == checked_sub(S1.total_supply, amount)
                 IN \* the allowance is stored before the balance is checked
                    IF current_balance < amount \/ new_balance = None
                    THEN Ret(S1, Err("InsufficientBalance",
                                     <<current_balance, amount>>))
                    ELSE IF new_supply = None
                    THEN Ret(S1, Err("InvalidAmount", <<>>))
                    ELSE Ret([S1 EXCEPT !.balances[from] = new_balance,
                                        !.total_supply = new_supply], Ok)

\* ------------------------------------------------------------------------
\* Pause
\* ------------------------------------------------------------------------

pause(S, sender) ==
    IF only_owner(S, sender).kind # "Ok" THEN Ret(S, only_owner(S, sender))
    ELSE IF S.paused THEN Ret(S, Err("ContractPaused", <<>>))
    ELSE Ret([S EXCEPT !.paused = TRUE], Ok)

unpause(S, sender) ==
    IF only_owner(S, sender).kind # "Ok" THEN Ret(S, only_owner(S, sender))
    ELSE IF ~S.paused THEN Ret(S, Err("NotContractPaused", <<>>))
    ELSE Ret([S EXCEPT !.paused = FALSE], Ok)

\* ------------------------------------------------------------------------
\* Supply cap
\* ------------------------------------------------------------------------

\* set_supply_cap without the "can only decrease" check
set_supply_cap_any(S, sender, new_cap) ==
    IF only_owner(S, sender).kind # "Ok" THEN Ret(S, only_owner(S, sender))
    ELSE IF new_cap < S.total_supply
    THEN Ret(S, Err("SupplyCapExceeded", <<S.total_supply, new_cap>>))
    ELSE Ret([S EXCEPT !.supply_cap = new_cap], Ok)

set_supply_cap(S, sender, new_cap) ==
    IF only_owner(S, sender).kind # "Ok" THEN Ret(S, only_owner(S, sender))
    ELSE LET current_cap == S.supply_cap
             current_supply == S.total_supply
         IN IF new_cap > current_cap
            THEN Ret(S, Err("CannotDecreaseSupplyCap", <<>>))
            ELSE IF new_cap < current_supply
            THEN Ret(S, Err("SupplyCapExceeded", <<current_supply, new_cap>>))
            ELSE Ret([S EXCEPT !.supply_cap = new_cap], Ok)

set_supply_cap_enabled(S, sender, enabled) ==
    IF only_owner(S, sender).kind # "Ok" THEN Ret(S, only_owner(S, sender))
    ELSE Ret([S EXCEPT !.supply_cap_enabled = enabled], Ok)

\* ------------------------------------------------------------------------
\* Batch operations
\* ------------------------------------------------------------------------

\* the for loop of batch_transfer from element i on: the first Err ends the
\* call, with the storage as the elements before it left it
RECURSIVE batch_transfer_loop(_, _, _, _, _)
batch_transfer_loop(S, sender, recipients, amounts, i) ==
    IF i > Len(recipients) THEN Ret(S, Ok)
    ELSE LET r == internal_transfer(S, sender, recipients[i], amounts[i]) IN
         IF r.res.kind # "Ok" THEN r
         ELSE batch_transfer_loop(r.st, sender, recipients, amounts, i + 1)

Min(a, b) == IF a < b THEN a ELSE b

\* batch_transfer that pairs the lists up to the shorter one (zip)
batch_transfer_zip(S, sender, recipients, amounts) ==
    IF S.paused THEN Ret(S, Err("ContractPaused", <<>>))
    ELSE LET n == Min(Len(recipients), Len(amounts)) IN
         batch_transfer_loop(S, sender, SubSeq(recipients, 1, n),
                             SubSeq(amounts, 1, n), 1)

batch_transfer(S, sender, recipients, amounts) ==
    IF Len(recipients) # Len(amounts)
    THEN Ret(S, Err("BatchTransferLengthMismatch", <<>>))
    ELSE IF S.paused THEN Ret(S, Err("ContractPaused", <<>>))
    ELSE batch_transfer_loop(S, sender, recipients, amounts, 1)

RECURSIVE batch_approve_loop(_, _, _, _, _)
batch_approve_loop(S, owner_, spenders, amounts, i) ==
    IF i > Len(spenders) THEN Ret(S, Ok)
    ELSE IF spenders[i] = ZERO THEN Ret(S, Err("ZeroAddress", <<>>))
    ELSE batch_approve_loop(
            [S EXCEPT !.allowances[owner_][spenders[i]] = amounts[i]],
            owner_, spenders, amounts, i + 1)

batch_approve(S, sender, spenders, amounts) ==
    IF Len(spenders) # Len(amounts)
    THEN Ret(S, Err("BatchApproveLengthMismatch", <<>>))
    ELSE IF S.paused THEN Ret(S, Err("ContractPaused", <<>>))
    ELSE batch_approve_loop(S, sender, spenders, amounts, 1)

\* ------------------------------------------------------------------------
\* Ownership
\* ------------------------------------------------------------------------

\* transfer_ownership that hands the three roles over with the owner field
transfer_ownership_with_roles(S, sender, new_owner) ==
    IF only_owner(S, sender).kind # "Ok" THEN Ret(S, only_owner(S, sender))
    ELSE IF new_owner = ZERO THEN Ret(S, Err("ZeroAddress", <<>>))
    ELSE Ret([S EXCEPT !.owner = new_owner,
                       !.roles = [role \in Roles |->
                           IF role = DEFAULT_ADMIN_ROLE THEN @[role]
                           ELSE [@[role] EXCEPT ![sender] = FALSE,
                                                ![new_owner] = TRUE]]], Ok)

\* transfer_ownership without the new-owner check
transfer_ownership_any(S, sender, new_owner) ==
    IF only_owner(S, sender).kind # "Ok" THEN Ret(S, only_owner(S, sender))
    ELSE Ret([S EXCEPT !.owner = new_owner], Ok)

transfer_ownership(S, sender, new_owner) ==
    IF only_owner(S, sender).kind # "Ok" THEN Ret(S, only_owner(S, sender))
    ELSE IF new_owner = ZERO THEN Ret(S, Err("ZeroAddress", <<>>))
    ELSE Ret([S EXCEPT !.owner = new_owner], Ok)

\* renounce_ownership that also drops the pending hand-over
renounce_ownership_clearing(S, sender) ==
    IF only_owner(S, sender).kind # "Ok" THEN Ret(S, only_owner(S, sender))
    ELSE Ret([S EXCEPT !.owner = ZERO,
                       !.pending_owner = ZERO,
                       !.ownership_unlock_time = 0], Ok)

renounce_ownership(S, sender) ==
    IF only_owner(S, sender).kind # "Ok" THEN Ret(S, only_owner(S, sender))
    ELSE Ret([S EXCEPT !.owner = ZERO], Ok)

\* cancel_ownership_transfer that clears the unlock time only
cancel_ownership_transfer_half(S, sender) ==
    IF only_owner(S, sender).kind # "Ok" THEN Ret(S, only_owner(S, sender))
    ELSE IF S.pending_owner = ZERO
    THEN Ret(S, Err("NoPendingOwnershipTransfer", <<>>))
    ELSE Ret([S EXCEPT !.ownership_unlock_time = 0], Ok)

cancel_ownership_transfer(S, sender) ==
    IF only_owner(S, sender).kind # "Ok" THEN Ret(S, only_owner(S, sender))
    ELSE IF S.pending_owner = ZERO
    THEN Ret(S, Err("NoPendingOwnershipTransfer", <<>>))
    ELSE Ret([S EXCEPT !.pending_owner = ZERO,
                       !.ownership_unlock_time = 0], Ok)

\* initiate_ownership_transfer that keeps a transfer already pending
initiate_ownership_transfer_keep(S, sender, current_time, new_owner) ==
    IF only_owner(S, sender).kind # "Ok" THEN Ret(S, only_owner(S, sender))
    ELSE IF new_owner = ZERO THEN Ret(S, Err("ZeroAddress", <<>>))
    ELSE IF S.pending_owner # ZERO THEN Ret(S, Ok)
    ELSE LET unlock_time == checked_add(current_time,
                                        S.ownership_transfer_delay)
         IN IF unlock_time = None THEN Ret(S, Err("InvalidAmount", <<>>))
            ELSE Ret([S EXCEPT !.pending_owner = new_owner,
                               !.ownership_unlock_time = unlock_time], Ok)

\* current_time is msg::epoch() at the call
initiate_ownership_transfer(S, sender, current_time, new_owner) ==
    IF only_owner(S, sender).kind # "Ok" THEN Ret(S, only_owner(S, sender))
    ELSE IF new_owner = ZERO THEN Ret(S, Err("ZeroAddress", <<>>))
    ELSE LET S1 == IF S.pending_owner # ZERO
                   THEN cancel_ownership_transfer(S, sender).st
                   ELSE S
             unlock_time == checked_add(current_time,
                                        S1.ownership_transfer_delay)
         IN \* a pending transfer is already cancelled when the sum is checked
            IF unlock_time = None THEN Ret(S1, Err("InvalidAmount", <<>>))
            ELSE Ret([S1 EXCEPT !.pending_owner = new_owner,
                                !.ownership_unlock_time = unlock_time], Ok)

\* accept_ownership with the unlock comparison left out
accept_ownership_early(S, sender, current_time) ==
    LET pending_owner_ == S.pending_owner IN
    IF pending_owner_ = ZERO
    THEN Ret(S, Err("NoPendingOwnershipTransfer", <<>>))
    ELSE IF sender # pending_owner_
    THEN Ret(S, Err("NotOwner", <<sender, pending_owner_>>))
    ELSE Ret([S EXCEPT !.owner = pending_owner_,
                       !.pending_owner = ZERO,
                       !.ownership_unlock_time = 0], Ok)

\* accept_ownership with the caller comparison left out
accept_ownership_anyone(S, sender, current_time) ==
    LET pending_owner_ == S.pending_owner
        unlock_time == S.ownership_unlock_time
    IN
    IF pending_owner_ = ZERO
    THEN Ret(S, Err("NoPendingOwnershipTransfer", <<>>))
    ELSE IF current_time < unlock_time
    THEN Ret(S, Err("OwnershipTransferNotYetUnlockable",
                    <<current_time, unlock_time>>))
    ELSE Ret([S EXCEPT !.owner = pending_owner_,
                       !.pending_owner = ZERO,
                       !.ownership_unlock_time = 0], Ok)

accept_ownership(S, sender, current_time) ==
    LET pending_owner_ == S.pending_owner
        unlock_time == S.ownership_unlock_time
    IN
    IF pending_owner_ = ZERO
    THEN Ret(S, Err("NoPendingOwnershipTransfer", <<>>))
    ELSE IF sender # pending_owner_
    THEN Ret(S, Err("NotOwner", <<sender, pending_owner_>>))
    ELSE IF current_time < unlock_time
    THEN Ret(S, Err("OwnershipTransferNotYetUnlockable",
                    <<current_time, unlock_time>>))
    ELSE Ret([S EXCEPT !.owner = pending_owner_,
                       !.pending_owner = ZERO,
                       !.ownership_unlock_time = 0], Ok)

set_ownership_transfer_delay(S, sender, delay_seconds) ==
    IF only_owner(S, sender).kind # "Ok" THEN Ret(S, only_owner(S, sender))
    ELSE Ret([S EXCEPT !.ownership_transfer_delay = delay_seconds], Ok)

\* ------------------------------------------------------------------------
\* Snapshots
\* ------------------------------------------------------------------------

snapshot(S, sender) ==
    IF only_owner(S, sender).kind # "Ok" THEN Ret(S, only_owner(S, sender))
    ELSE IF S.current_snapshot_id # 0
    THEN Ret(S, Err("SnapshotInProgress", <<>>))
    ELSE LET snapshot_id == S.next_snapshot_id IN
         \* no balance is recorded: the snapshot is only marked as started
         Ret([S EXCEPT !.current_snapshot_id = snapshot_id],
             OkWith(snapshot_id))

\* finalize_snapshot that does not advance next_snapshot_id
finalize_snapshot_keep(S, sender) ==
    IF only_owner(S, sender).kind # "Ok" THEN Ret(S, only_owner(S, sender))
    ELSE LET snapshot_id == S.current_snapshot_id IN
         IF snapshot_id = 0
         THEN Ret(S, Err("SnapshotNotFound", <<snapshot_id>>))
         ELSE Ret([S EXCEPT !.current_snapshot_id = 0], OkWith(snapshot_id))

finalize_snapshot(S, sender) ==
    IF only_owner(S, sender).kind # "Ok" THEN Ret(S, only_owner(S, sender))
    ELSE LET snapshot_id == S.current_snapshot_id IN
         IF snapshot_id = 0
         THEN Ret(S, Err("SnapshotNotFound", <<snapshot_id>>))
         ELSE IF checked_add(snapshot_id, 1) = None
         THEN Ret(S, Err("InvalidAmount", <<>>))
         ELSE Ret([S EXCEPT !.next_snapshot_id = checked_add(snapshot_id, 1),
                            !.current_snapshot_id = 0],
                  OkWith(snapshot_id))

\* a view: the result only
balance_of_at(S, account, snapshot_id) ==
    IF snapshot_id >= S.next_snapshot_id
    THEN Err("SnapshotNotFound", <<snapshot_id>>)
    ELSE OkWith(S.balances[account])

\* a view: the result only
total_supply_at(S, snapshot_id) ==
    IF snapshot_id >= S.next_snapshot_id
    THEN Err("SnapshotNotFound", <<snapshot_id>>)
    ELSE OkWith(S.total_supply)

\* ------------------------------------------------------------------------
\* Roles
\* ------------------------------------------------------------------------

\* grant_role without the admin check
grant_role_open(S, sender, role, account) ==
    IF account = ZERO THEN Ret(S, Err("ZeroAddress", <<>>))
    ELSE IF S.roles[role][account]
    THEN Ret(S, Err("RoleAlreadyGranted", <<role, account>>))
    ELSE Ret([S EXCEPT !.roles[role][account] = TRUE], Ok)

\* grant_role that accepts a role already held
grant_role_idempotent(S, sender, role, account) ==
    LET admin_role == S.role_admins[role] IN
    IF ~S.roles[admin_role][sender]
    THEN Ret(S, Err("AccessDenied", <<sender, admin_role>>))
    ELSE IF account = ZERO THEN Ret(S, Err("ZeroAddress", <<>>))
    ELSE Ret([S EXCEPT !.roles[role][account] = TRUE], Ok)

grant_role(S, sender, role, account) ==
    LET admin_role == S.role_admins[role] IN
    IF ~S.roles[admin_role][sender]
    THEN Ret(S, Err("AccessDenied", <<sender, admin_role>>))
    ELSE IF account = ZERO THEN Ret(S, Err("ZeroAddress", <<>>))
    ELSE LET was_granted == S.roles[role][account] IN
         IF was_granted
         THEN Ret(S, Err("RoleAlreadyGranted", <<role, account>>))
         ELSE Ret([S EXCEPT !.roles[role][account] = TRUE], Ok)

revoke_role(S, sender, role, account) ==
    LET admin_role == S.role_admins[role] IN
    IF ~S.roles[admin_role][sender]
    THEN Ret(S, Err("AccessDenied", <<sender, admin_role>>))
    ELSE IF account = ZERO THEN Ret(S, Err("ZeroAddress", <<>>))
    ELSE LET was_revoked == S.roles[role][account] IN
         IF ~was_revoked
         THEN Ret(S, Err("RoleAlreadyRevoked", <<role, account>>))
         ELSE Ret([S EXCEPT !.roles[role][account] = FALSE], Ok)

\* renounce_role that refuses a role the caller does not hold
renounce_role_checked(S, sender, role) ==
    IF ~S.roles[role][sender]
    THEN Ret(S, Err("RoleAlreadyRevoked", <<role, sender>>))
    ELSE Ret([S EXCEPT !.roles[role][sender] = FALSE], Ok)

renounce_role(S, sender, role) ==
    Ret([S EXCEPT !.roles[role][sender] = FALSE], Ok)

\* ------------------------------------------------------------------------
\* Blacklist
\* ------------------------------------------------------------------------

blacklist(S, sender, account) ==
    IF only_owner(S, sender).kind # "Ok" THEN Ret(S, only_owner(S, sender))
    ELSE IF account = ZERO THEN Ret(S, Err("ZeroAddress", <<>>))
    ELSE IF S.blacklisted[account]
    THEN Ret(S, Err("AddressBlacklisted", <<account>>))
    ELSE Ret([S EXCEPT !.blacklisted[account] = TRUE], Ok)

unblacklist(S, sender, account) ==
    IF only_owner(S, sender).kind # "Ok" THEN Ret(S, only_owner(S, sender))
    ELSE IF ~S.blacklisted[account]
    THEN Ret(S, Err("AddressNotBlacklisted", <<account>>))
    ELSE Ret([S EXCEPT !.blacklisted[account] = FALSE], Ok)

set_blacklist_enabled(S, sender, enabled) ==
    IF only_owner(S, sender).kind # "Ok" THEN Ret(S, only_owner(S, sender))
    ELSE Ret([S EXCEPT !.blacklist_enabled = enabled], Ok)

\* ------------------------------------------------------------------------
\* Variants with compliance checks
\* ------------------------------------------------------------------------

\* internal_transfer_with_checks that consults the blacklist whether or not
\* it is enabled
internal_transfer_always_listed(S, from, to, amount) ==
    IF S.blacklisted[from] THEN Ret(S, Err("AddressBlacklisted", <<from>>))
    ELSE IF S.blacklisted[to] THEN Ret(S, Err("AddressBlacklisted", <<to>>))
    ELSE internal_transfer(S, from, to, amount)

\* internal_transfer_with_checks with the whitelist branch given a body:
\* under restrictions a transfer between two accounts off the list fails
internal_transfer_with_whitelist(S, from, to, amount) ==
    IF S.blacklist_enabled /\ S.blacklisted[from]
    THEN Ret(S, Err("AddressBlacklisted", <<from>>))
    ELSE IF S.blacklist_enabled /\ S.blacklisted[to]
    THEN Ret(S, Err("AddressBlacklisted", <<to>>))
    ELSE IF /\ S.transfer_restrictions_enabled
            /\ ~S.transfer_whitelist[from]
            /\ ~S.transfer_whitelist[to]
    THEN Ret(S, Err("AccessDenied", <<from, ADMIN_ROLE>>))
    ELSE internal_transfer(S, from, to, amount)

internal_transfer_with_checks(S, from, to, amount) ==
    IF S.blacklist_enabled /\ S.blacklisted[from]
    THEN Ret(S, Err("AddressBlacklisted", <<from>>))
    ELSE IF S.blacklist_enabled /\ S.blacklisted[to]
    THEN Ret(S, Err("AddressBlacklisted", <<to>>))
    \* the transfer_restrictions_enabled branch has an empty body
    ELSE internal_transfer(S, from, to, amount)

internal_mint(S, to, amount) ==
    LET current_supply == S.total_supply
        capped_supply == checked_add(current_supply, amount)
    IN
    IF S.supply_cap_enabled /\ capped_supply = None
    THEN Ret(S, Err("InvalidAmount", <<>>))
    ELSE IF S.supply_cap_enabled /\ capped_supply > S.supply_cap
    THEN Ret(S, Err("SupplyCapExceeded", <<current_supply, S.supply_cap>>))
    ELSE LET new_balance == checked_add(S.balances[to], amount) IN
         IF new_balance = None THEN Ret(S, Err("InvalidAmount", <<>>))
         ELSE LET S1 == [S EXCEPT !.balances[to] = new_balance]
                  new_supply == checked_add(S1.total_supply, amount)
              IN \* the balance is already stored when the supply is checked
                 IF new_supply = None THEN Ret(S1, Err("InvalidAmount", <<>>))
                 ELSE Ret([S1 EXCEPT !.total_supply = new_supply], Ok)

transfer_with_checks(S, sender, to, amount) ==
    LET from == sender IN
    IF S.paused THEN Ret(S, Err("ContractPaused", <<>>))
    ELSE IF to = ZERO THEN Ret(S, Err("ZeroAddress", <<>>))
    ELSE IF amount = 0 THEN Ret(S, Ok)
    ELSE internal_transfer_with_checks(S, from, to, amount)

transfer_from_with_checks(S, sender, from, to, amount) ==
    LET spender == sender IN
    IF S.paused THEN Ret(S, Err("ContractPaused", <<>>))
    ELSE IF to = ZERO THEN Ret(S, Err("ZeroAddress", <<>>))
    ELSE IF amount = 0 THEN Ret(S, Ok)
    ELSE LET current_allowance == S.allowances[from][spender]
             new_allowance == checked_sub(current_allowance, amount)
         IN IF current_allowance < amount \/ new_allowance = None
            THEN Ret(S, Err("InsufficientAllowance",
                            <<current_allowance, amount>>))
            ELSE internal_transfer_with_checks(
                    [S EXCEPT !.allowances[from][spender] = new_allowance],
                    from, to, amount)

mint_with_checks(S, sender, to, amount) ==
    IF ~S.roles[MINTER_ROLE][sender]
    THEN Ret(S, Err("AccessDenied", <<sender, MINTER_ROLE>>))
    ELSE IF S.paused THEN Ret(S, Err("ContractPaused", <<>>))
    ELSE IF to = ZERO THEN Ret(S, Err("ZeroAddress", <<>>))
    ELSE IF amount = 0 THEN Ret(S, Ok)
    ELSE internal_mint(S, to, amount)

pause_with_role(S, sender) ==
    IF ~S.roles[PAUSER_ROLE][sender]
    THEN Ret(S, Err("AccessDenied", <<sender, PAUSER_ROLE>>))
    ELSE IF S.paused THEN Ret(S, Err("ContractPaused", <<>>))
    ELSE Ret([S EXCEPT !.paused = TRUE], Ok)

unpause_with_role(S, sender) ==
    IF ~S.roles[PAUSER_ROLE][sender]
    THEN Ret(S, Err("AccessDenied", <<sender, PAUSER_ROLE>>))
    ELSE IF ~S.paused THEN Ret(S, Err("NotContractPaused", <<>>))
    ELSE Ret([S EXCEPT !.paused = FALSE], Ok)

\* ------------------------------------------------------------------------
\* Emergency settings and the transfer whitelist
\* ------------------------------------------------------------------------

set_emergency_admin(S, sender, new_admin) ==
    IF only_owner(S, sender).kind # "Ok" THEN Ret(S, only_owner(S, sender))
    ELSE Ret([S EXCEPT !.emergency_admin = new_admin], Ok)

set_guardian(S, sender, new_guardian) ==
    IF only_owner(S, sender).kind # "Ok" THEN Ret(S, only_owner(S, sender))
    ELSE Ret([S EXCEPT !.guardian = new_guardian,
                       !.guardian_enabled = (new_guardian # ZERO)], Ok)

\* guardian_pause that any caller may use once a guardian is set
guardian_pause_open(S, sender) ==
    IF ~S.guardian_enabled
    THEN Ret(S, Err("AccessDenied", <<sender, PAUSER_ROLE>>))
    ELSE IF S.paused THEN Ret(S, Err("ContractPaused", <<>>))
    ELSE Ret([S EXCEPT !.paused = TRUE], Ok)

guardian_pause(S, sender) ==
    IF ~S.guardian_enabled \/ sender # S.guardian
    THEN Ret(S, Err("AccessDenied", <<sender, PAUSER_ROLE>>))
    ELSE IF S.paused THEN Ret(S, Err("ContractPaused", <<>>))
    ELSE Ret([S EXCEPT !.paused = TRUE], Ok)

\* the two fields it stores are not part of the state
set_minting_limits(S, sender, period_limit, period_duration_seconds) ==
    IF only_owner(S, sender).kind # "Ok" THEN Ret(S, only_owner(S, sender))
    ELSE Ret(S, Ok)

add_to_whitelist(S, sender, account) ==
    IF only_owner(S, sender).kind # "Ok" THEN Ret(S, only_owner(S, sender))
    ELSE Ret([S EXCEPT !.transfer_whitelist[account] = TRUE], Ok)

remove_from_whitelist(S, sender, account) ==
    IF only_owner(S, sender).kind # "Ok" THEN Ret(S, only_owner(S, sender))
    ELSE Ret([S EXCEPT !.transfer_whitelist[account] = FALSE], Ok)

set_transfer_restrictions_enabled(S, sender, enabled) ==
    IF only_owner(S, sender).kind # "Ok" THEN Ret(S, only_owner(S, sender))
    ELSE Ret([S EXCEPT !.transfer_restrictions_enabled = enabled], Ok)

\* ------------------------------------------------------------------------
\* Actions: one external call each
\* ------------------------------------------------------------------------

\* the storage becomes r.st
Store(r) ==
    /\ total_supply' = r.st.total_supply
    /\ balances' = r.st.balances
    /\ allowances' = r.st.allowances
    /\ initialized' = r.st.initialized
    /\ owner' = r.st.owner
    /\ paused' = r.st.paused
    /\ supply_cap' = r.st.supply_cap
    /\ supply_cap_enabled' = r.st.supply_cap_enabled
    /\ roles' = r.st.roles
    /\ role_admins' = r.st.role_admins
    /\ blacklisted' = r.st.blacklisted
    /\ blacklist_enabled' = r.st.blacklist_enabled
    /\ next_snapshot_id' = r.st.next_snapshot_id
    /\ current_snapshot_id' = r.st.current_snapshot_id
    /\ pending_owner' = r.st.pending_owner
    /\ ownership_unlock_time' = r.st.ownership_unlock_time
    /\ ownership_transfer_delay' = r.st.ownership_transfer_delay
    /\ emergency_admin' = r.st.emergency_admin
    /\ guardian' = r.st.guardian
    /\ guardian_enabled' = r.st.guardian_enabled
    /\ transfer_whitelist' = r.st.transfer_whitelist
    /\ transfer_restrictions_enabled' = r.st.transfer_restrictions_enabled

\* the call and the kind of its result
Called(op, r) == [op |-> op, kind |-> r.res.kind]

\* token_decimals values handed to initialize
Decimals == {0, 18}

\* initial_owner values handed to initialize
InitialOwners == {ZERO, "a1"}

\* recipient values handed to the calls other than transfer
Recipients == {ZERO} \cup Callers

\* spender values handed to the approve family
Spenders == {ZERO, "a2"}

\* recipients handed to batch_transfer: the null address and a2, which is
\* another account for the caller a1 and the caller's own for a2
BatchRecipients == {ZERO, "a2"}

\* amounts handed to the batch calls
BatchValues == {0, 1, 2}

\* the lists handed to the batch calls
SeqsUpTo(S, n) == UNION {[1..k -> S] : k \in 0..n}

Init ==
    /\ total_supply = ZeroStorage.total_supply
    /\ balances = ZeroStorage.balances
    /\ allowances = ZeroStorage.allowances
    /\ initialized = ZeroStorage.initialized
    /\ owner = ZeroStorage.owner
    /\ paused = ZeroStorage.paused
    /\ supply_cap = ZeroStorage.supply_cap
    /\ supply_cap_enabled = ZeroStorage.supply_cap_enabled
    /\ roles = ZeroStorage.roles
    /\ role_admins = ZeroStorage.role_admins
    /\ blacklisted = ZeroStorage.blacklisted
    /\ blacklist_enabled = ZeroStorage.blacklist_enabled
    /\ next_snapshot_id = ZeroStorage.next_snapshot_id
    /\ current_snapshot_id = ZeroStorage.current_snapshot_id
    /\ pending_owner = ZeroStorage.pending_owner
    /\ ownership_unlock_time = ZeroStorage.ownership_unlock_time
    /\ ownership_transfer_delay = ZeroStorage.ownership_transfer_delay
    /\ emergency_admin = ZeroStorage.emergency_admin
    /\ guardian = ZeroStorage.guardian
    /\ guardian_enabled = ZeroStorage.guardian_enabled
    /\ transfer_whitelist = ZeroStorage.transfer_whitelist
    /\ transfer_restrictions_enabled = ZeroStorage.transfer_restrictions_enabled
    /\ last = [op |-> "deploy", kind |-> "Ok"]
    /\ epoch = 0

Initialize ==
    \E d \in Decimals, s \in U256, o \in InitialOwners :
        LET r == initialize(State, d, s, o) IN
        /\ Store(r)
        /\ last' = Called("initialize", r)
        /\ UNCHANGED epoch

Transfer ==
    \E c \in Callers, to \in Address, a \in U256 :
        LET r == transfer(State, c, to, a) IN
        /\ Store(r)
        /\ last' = Called("transfer", r)
        /\ UNCHANGED epoch

Approve ==
    \E c \in Callers, sp \in Spenders, a \in U256 :
        LET r == approve(State, c, sp, a) IN
        /\ Store(r)
        /\ last' = Called("approve", r)
        /\ UNCHANGED epoch

TransferFrom ==
    \E c \in Callers, from \in Callers, to \in Recipients, a \in U256 :
        LET r == transfer_from(State, c, from, to, a) IN
        /\ Store(r)
        /\ last' = Called("transfer_from", r)
        /\ UNCHANGED epoch

IncreaseAllowance ==
    \E c \in Callers, sp \in Spenders, a \in U256 :
        LET r == increase_allowance(State, c, sp, a) IN
        /\ Store(r)
        /\ last' = Called("increase_allowance", r)
        /\ UNCHANGED epoch

DecreaseAllowance ==
    \E c \in Callers, sp \in Spenders, a \in U256 :
        LET r == decrease_allowance(State, c, sp, a) IN
        /\ Store(r)
        /\ last' = Called("decrease_allowance", r)
        /\ UNCHANGED epoch

Mint ==
    \E c \in Callers, to \in Recipients, a \in U256 :
        LET r == mint(State, c, to, a) IN
        /\ Store(r)
        /\ last' = Called("mint", r)
        /\ UNCHANGED epoch

Burn ==
    \E c \in Callers, a \in U256 :
        LET r == burn(State, c, a) IN
        /\ Store(r)
        /\ last' = Called("burn", r)
        /\ UNCHANGED epoch

BurnFrom ==
    \E c \in Callers, from \in {ZERO} \cup Callers, a \in U256 :
        LET r == burn_from(State, c, from, a) IN
        /\ Store(r)
        /\ last' = Called("burn_from", r)
        /\ UNCHANGED epoch

Pause ==
    \E c \in Callers :
        LET r == pause(State, c) IN
        /\ Store(r)
        /\ last' = Called("pause", r)
        /\ UNCHANGED epoch

Unpause ==
    \E c \in Callers :
        LET r == unpause(State, c) IN
        /\ Store(r)
        /\ last' = Called("unpause", r)
        /\ UNCHANGED epoch

SetSupplyCap ==
    \E c \in Callers, n \in U256 :
        LET r == set_supply_cap(State, c, n) IN
        /\ Store(r)
        /\ last' = Called("set_supply_cap", r)
        /\ UNCHANGED epoch

SetSupplyCapEnabled ==
    \E c \in Callers, e \in BOOLEAN :
        LET r == set_supply_cap_enabled(State, c, e) IN
        /\ Store(r)
        /\ last' = Called("set_supply_cap_enabled", r)
        /\ UNCHANGED epoch

\* lists of equal length with every content, and lists of unequal length
BatchTransfer ==
    \/ \E c \in Callers, k \in 0..MaxBatch :
         \E rs \in [1..k -> BatchRecipients], as \in [1..k -> BatchValues] :
            LET r == batch_transfer(State, c, rs, as) IN
            /\ Store(r)
            /\ last' = Called("batch_transfer", r)
            /\ UNCHANGED epoch
    \/ \E c \in Callers, n \in 0..(MaxBatch + 1), m \in 0..(MaxBatch + 1) :
         /\ n # m
         /\ LET r == batch_transfer(State, c, [i \in 1..n |-> "a2"],
                                     [i \in 1..m |-> 1]) IN
            /\ Store(r)
            /\ last' = Called("batch_transfer", r)
            /\ UNCHANGED epoch

BatchApprove ==
    \/ \E c \in Callers, k \in 0..MaxBatch :
         \E ss \in [1..k -> Spenders], as \in [1..k -> BatchValues] :
            LET r == batch_approve(State, c, ss, as) IN
            /\ Store(r)
            /\ last' = Called("batch_approve", r)
            /\ UNCHANGED epoch
    \/ \E c \in Callers, n \in 0..(MaxBatch + 1), m \in 0..(MaxBatch + 1) :
         /\ n # m
         /\ LET r == batch_approve(State, c, [i \in 1..n |-> "a2"],
                                    [i \in 1..m |-> 1]) IN
            /\ Store(r)
            /\ last' = Called("batch_approve", r)
            /\ UNCHANGED epoch

TransferWithChecks ==
    \E c \in Callers, to \in Recipients, a \in U256 :
        LET r == transfer_with_checks(State, c, to, a) IN
        /\ Store(r)
        /\ last' = Called("transfer_with_checks", r)
        /\ UNCHANGED epoch

TransferFromWithChecks ==
    \E c \in Callers, from \in Callers, to \in Recipients, a \in U256 :
        LET r == transfer_from_with_checks(State, c, from, to, a) IN
        /\ Store(r)
        /\ last' = Called("transfer_from_with_checks", r)
        /\ UNCHANGED epoch

MintWithChecks ==
    \E c \in Callers, to \in Recipients, a \in U256 :
        LET r == mint_with_checks(State, c, to, a) IN
        /\ Store(r)
        /\ last' = Called("mint_with_checks", r)
        /\ UNCHANGED epoch

Blacklist ==
    \E c \in Callers, a \in Recipients :
        LET r == blacklist(State, c, a) IN
        /\ Store(r)
        /\ last' = Called("blacklist", r)
        /\ UNCHANGED epoch

Unblacklist ==
    \E c \in Callers, a \in Recipients :
        LET r == unblacklist(State, c, a) IN
        /\ Store(r)
        /\ last' = Called("unblacklist", r)
        /\ UNCHANGED epoch

SetBlacklistEnabled ==
    \E c \in Callers, e \in BOOLEAN :
        LET r == set_blacklist_enabled(State, c, e) IN
        /\ Store(r)
        /\ last' = Called("set_blacklist_enabled", r)
        /\ UNCHANGED epoch

\* the block time moves on between calls
Tick ==
    /\ epoch < U256_MAX
    /\ epoch' = epoch + 1
    /\ last' = [op |-> "tick", kind |-> "Ok"]
    /\ UNCHANGED storage

TransferOwnership ==
    \E c \in Callers, n \in Recipients :
        LET r == transfer_ownership(State, c, n) IN
        /\ Store(r)
        /\ last' = Called("transfer_ownership", r)
        /\ UNCHANGED epoch

RenounceOwnership ==
    \E c \in Callers :
        LET r == renounce_ownership(State, c) IN
        /\ Store(r)
        /\ last' = Called("renounce_ownership", r)
        /\ UNCHANGED epoch

\* last also keeps the pending owner the call found
InitiateOwnershipTransfer ==
    \E c \in Callers, n \in Address :
        LET r == initiate_ownership_transfer(State, c, epoch, n) IN
        /\ Store(r)
        /\ last' = [op |-> "initiate_ownership_transfer",
                    kind |-> r.res.kind,
                    replaced |-> pending_owner]
        /\ UNCHANGED epoch

AcceptOwnership ==
    \E c \in Users :
        LET r == accept_ownership(State, c, epoch) IN
        /\ Store(r)
        /\ last' = Called("accept_ownership", r)
        /\ UNCHANGED epoch

CancelOwnershipTransfer ==
    \E c \in Callers :
        LET r == cancel_ownership_transfer(State, c) IN
        /\ Store(r)
        /\ last' = Called("cancel_ownership_transfer", r)
        /\ UNCHANGED epoch

SetOwnershipTransferDelay ==
    \E c \in Callers, d \in U256 :
        LET r == set_ownership_transfer_delay(State, c, d) IN
        /\ Store(r)
        /\ last' = Called("set_ownership_transfer_delay", r)
        /\ UNCHANGED epoch

\* last also keeps the id the call returned (0 when it failed)
Snapshot ==
    \E c \in Callers :
        LET r == snapshot(State, c) IN
        /\ Store(r)
        /\ last' = [op |-> "snapshot",
                    kind |-> r.res.kind,
                    id |-> IF r.res.kind = "Ok" THEN r.res.args[1] ELSE 0]
        /\ UNCHANGED epoch

FinalizeSnapshot ==
    \E c \in Callers :
        LET r == finalize_snapshot(State, c) IN
        /\ Store(r)
        /\ last' = Called("finalize_snapshot", r)
        /\ UNCHANGED epoch

\* last also keeps the caller and the arguments
GrantRole ==
    \E c \in Callers, ro \in Roles, a \in Recipients :
        LET r == grant_role(State, c, ro, a) IN
        /\ Store(r)
        /\ last' = [op |-> "grant_role", kind |-> r.res.kind,
                    caller |-> c, role |-> ro, account |-> a]
        /\ UNCHANGED epoch

RevokeRole ==
    \E c \in Callers, ro \in Roles, a \in Recipients :
        LET r == revoke_role(State, c, ro, a) IN
        /\ Store(r)
        /\ last' = Called("revoke_role", r)
        /\ UNCHANGED epoch

RenounceRole ==
    \E c \in Callers, ro \in Roles :
        LET r == renounce_role(State, c, ro) IN
        /\ Store(r)
        /\ last' = Called("renounce_role", r)
        /\ UNCHANGED epoch

PauseWithRole ==
    \E c \in Callers :
        LET r == pause_with_role(State, c) IN
        /\ Store(r)
        /\ last' = Called("pause_with_role", r)
        /\ UNCHANGED epoch

UnpauseWithRole ==
    \E c \in Callers :
        LET r == unpause_with_role(State, c) IN
        /\ Store(r)
        /\ last' = Called("unpause_with_role", r)
        /\ UNCHANGED epoch

SetEmergencyAdmin ==
    \E c \in Callers, a \in Recipients :
        LET r == set_emergency_admin(State, c, a) IN
        /\ Store(r)
        /\ last' = Called("set_emergency_admin", r)
        /\ UNCHANGED epoch

SetGuardian ==
    \E c \in Callers, g \in Recipients :
        LET r == set_guardian(State, c, g) IN
        /\ Store(r)
        /\ last' = Called("set_guardian", r)
        /\ UNCHANGED epoch

GuardianPause ==
    \E c \in Callers :
        LET r == guardian_pause(State, c) IN
        /\ Store(r)
        /\ last' = Called("guardian_pause", r)
        /\ UNCHANGED epoch

AddToWhitelist ==
    \E c \in Callers, a \in Callers :
        LET r == add_to_whitelist(State, c, a) IN
        /\ Store(r)
        /\ last' = Called("add_to_whitelist", r)
        /\ UNCHANGED epoch

RemoveFromWhitelist ==
    \E c \in Callers, a \in Callers :
        LET r == remove_from_whitelist(State, c, a) IN
        /\ Store(r)
        /\ last' = Called("remove_from_whitelist", r)
        /\ UNCHANGED epoch

SetTransferRestrictionsEnabled ==
    \E c \in Callers, e \in BOOLEAN :
        LET r == set_transfer_restrictions_enabled(State, c, e) IN
        /\ Store(r)
        /\ last' = Called("set_transfer_restrictions_enabled", r)
        /\ UNCHANGED epoch

\* ------------------------------------------------------------------------
\* Specifications
\* ------------------------------------------------------------------------

\* the token core: balances and supply
Next ==
    \/ Initialize
    \/ Transfer
    \/ Mint
    \/ Burn
    \/ Pause
    \/ Unpause

Spec == Init /\ [][Next]_vars

\* allowances and the calls that spend them
NextAllowance ==
    \/ Initialize
    \/ Approve
    \/ IncreaseAllowance
    \/ DecreaseAllowance
    \/ TransferFrom

SpecAllowance == Init /\ [][NextAllowance]_vars

\* burning, by the holder and by a spender
NextBurn ==
    \/ Initialize
    \/ Approve
    \/ Burn
    \/ BurnFrom

SpecBurn == Init /\ [][NextBurn]_vars

\* the pause switch over holders and spenders
NextPause ==
    \/ Initialize
    \/ Approve
    \/ TransferFrom
    \/ Pause
    \/ Unpause

SpecPause == Init /\ [][NextPause]_vars

\* the supply cap and the two mint entry points
NextCap ==
    \/ Initialize
    \/ Mint
    \/ MintWithChecks
    \/ Burn
    \/ SetSupplyCap
    \/ SetSupplyCapEnabled

SpecCap == Init /\ [][NextCap]_vars

\* the batch dispatcher: transfers
NextBatch ==
    \/ Initialize
    \/ BatchTransfer
    \/ Pause
    \/ Unpause

SpecBatch == Init /\ [][NextBatch]_vars

\* the batch dispatcher: approvals
NextBatchApprove ==
    \/ Initialize
    \/ BatchApprove
    \/ Pause
    \/ Unpause

SpecBatchApprove == Init /\ [][NextBatchApprove]_vars

\* the blacklist over plain and checked transfers
NextBlacklist ==
    \/ Initialize
    \/ Blacklist
    \/ Unblacklist
    \/ SetBlacklistEnabled
    \/ Transfer
    \/ TransferWithChecks

SpecBlacklist == Init /\ [][NextBlacklist]_vars

\* the time-locked hand-over of ownership
NextOwnership ==
    \/ Initialize
    \/ InitiateOwnershipTransfer
    \/ AcceptOwnership
    \/ CancelOwnershipTransfer
    \/ SetOwnershipTransferDelay
    \/ TransferOwnership
    \/ Tick

SpecOwnership == Init /\ [][NextOwnership]_vars

\* snapshots between value moves
NextSnapshot ==
    \/ Initialize
    \/ Snapshot
    \/ FinalizeSnapshot
    \/ Transfer
    \/ Mint
    \/ Burn

SpecSnapshot == Init /\ [][NextSnapshot]_vars

\* the snapshot ids under changing owners
NextSnapshotIds ==
    \/ Initialize
    \/ Snapshot
    \/ FinalizeSnapshot
    \/ TransferOwnership

SpecSnapshotIds == Init /\ [][NextSnapshotIds]_vars

\* role membership
NextRoles ==
    \/ Initialize
    \/ GrantRole
    \/ RevokeRole
    \/ RenounceRole

SpecRoles == Init /\ [][NextRoles]_vars

\* owner authority next to role authority
NextAuthority ==
    \/ Initialize
    \/ TransferOwnership
    \/ RenounceOwnership
    \/ RenounceRole
    \/ Pause
    \/ Unpause
    \/ PauseWithRole
    \/ UnpauseWithRole
    \/ SetEmergencyAdmin
    \/ SetGuardian
    \/ GuardianPause

SpecAuthority == Init /\ [][NextAuthority]_vars

\* every way the owner field changes
NextOwner ==
    \/ Initialize
    \/ TransferOwnership
    \/ RenounceOwnership
    \/ InitiateOwnershipTransfer
    \/ AcceptOwnership
    \/ Tick

SpecOwner == Init /\ [][NextOwner]_vars

\* the transfer whitelist over the checked transfers
NextWhitelist ==
    \/ Initialize
    \/ AddToWhitelist
    \/ RemoveFromWhitelist
    \/ SetTransferRestrictionsEnabled
    \/ TransferWithChecks

SpecWhitelist == Init /\ [][NextWhitelist]_vars

\* the blacklist over the checked transfer
NextChecked ==
    \/ Initialize
    \/ Blacklist
    \/ Unblacklist
    \/ SetBlacklistEnabled
    \/ TransferWithChecks

SpecChecked == Init /\ [][NextChecked]_vars

\* debits by holders and by spenders
NextDebit ==
    \/ Initialize
    \/ Approve
    \/ TransferFrom

SpecDebit == Init /\ [][NextDebit]_vars

\* ------------------------------------------------------------------------
\* Properties
\* ------------------------------------------------------------------------

RECURSIVE SumOver(_, _)
SumOver(f, D) ==
    IF D = {} THEN 0
    ELSE LET a == CHOOSE x \in D : TRUE IN f[a] + SumOver(f, D \ {a})

SumBalances == SumOver(balances, Address)

\* balances with `amount` moved from `from` to `to` (from # to)
Moved(b, from, to, amount) ==
    [b EXCEPT ![from] = @ - amount, ![to] = @ + amount]

\* C1: once initialized, the sum of all account balances equals total_supply
\* in every reachable state.
C1_SupplyEqualsBalances == initialized => SumBalances = total_supply

\* C2: in every reachable state with supply_cap_enabled, total_supply is at
\* most supply_cap.
C2_SupplyWithinCap == supply_cap_enabled => total_supply <= supply_cap

\* what C3 says of one mint result r for recipient `to` and amount x
C3_MintOutcome(r, to, x) ==
    /\ total_supply + x > supply_cap =>
          /\ r.res.kind = "SupplyCapExceeded"
          /\ r.res.args = <<total_supply, supply_cap>>
          /\ r.st = State
    /\ total_supply + x = supply_cap =>
          /\ r.res.kind = "Ok"
          /\ r.st = [State EXCEPT !.balances[to] = @ + x,
                                  !.total_supply = @ + x]

\* C3: with the cap enabled, a mint of x by an authorized caller (the owner
\* through mint, a MINTER_ROLE holder through mint_with_checks) fails with
\* SupplyCapExceeded{total_supply, supply_cap} and changes nothing when
\* total_supply + x > supply_cap, and succeeds, adding x to the recipient
\* balance and to total_supply, when total_supply + x = supply_cap.
C3_MintRespectsCap ==
    (initialized /\ supply_cap_enabled /\ ~paused) =>
        \A c \in Callers, to \in Users, x \in 1..U256_MAX :
            /\ c = owner => C3_MintOutcome(mint(State, c, to, x), to, x)
            /\ roles[MINTER_ROLE][c] =>
                  C3_MintOutcome(mint_with_checks(State, c, to, x), to, x)

\* what set_supply_cap(n) by the owner does in the current state
C4_SetSupplyCapOutcome ==
    (initialized /\ owner # ZERO) =>
        \A n \in U256 :
            LET r == set_supply_cap(State, owner, n) IN
            IF n > supply_cap
            THEN r.res.kind = "CannotDecreaseSupplyCap" /\ r.st = State
            ELSE IF n < total_supply
            THEN r.res.kind = "SupplyCapExceeded" /\ r.st = State
            ELSE r.res.kind = "Ok" /\ r.st = [State EXCEPT !.supply_cap = n]

\* C4: once the ledger is initialized no call raises supply_cap; and
\* set_supply_cap(n) by the owner fails with CannotDecreaseSupplyCap when
\* n > supply_cap, otherwise with SupplyCapExceeded when n < total_supply
\* (the cap unchanged in both cases), and otherwise, that is when
\* total_supply <= n <= supply_cap, succeeds and stores n.
C4_CapOnlyLowered ==
    /\ []C4_SetSupplyCapOutcome
    /\ [][initialized => supply_cap' <= supply_cap]_vars

\* C4 as first stated: no call at all, initialize included, raises the
\* stored supply_cap.
C4_CapNeverRaised == [][supply_cap' <= supply_cap]_vars

\* C4 witness: the owner has lowered the cap.
C4_Witness ==
    /\ last = [op |-> "set_supply_cap", kind |-> "Ok"]
    /\ supply_cap < U256_MAX
    /\ total_supply > 0

\* C5: when not paused, transfer(to, amount) by F with to non-null, to # F
\* and amount > 0 fails with InsufficientBalance{balance[F], amount} and
\* changes nothing if balance[F] < amount, and otherwise succeeds, moving
\* exactly amount from balance[F] to balance[to] and changing nothing else.
C5_TransferMovesExactly ==
    ~paused =>
        \A f \in Callers, to \in Users, a \in 1..U256_MAX :
            LET r == transfer(State, f, to, a) IN
            IF to = f THEN TRUE
            ELSE IF balances[f] < a
            THEN /\ r.res.kind = "InsufficientBalance"
                 /\ r.res.args = <<balances[f], a>>
                 /\ r.st = State
            ELSE /\ r.res.kind = "Ok"
                 /\ r.st = [State EXCEPT !.balances = Moved(balances, f, to, a)]

\* C6: for every sender and every recipient, transfer and transfer_from of
\* amount 0 leave every balance, every allowance and total_supply as they
\* were, whatever the sender holds.
C6_ZeroAmountChangesNothing ==
    \A c \in Users, from \in Address, to \in Address :
        /\ transfer(State, c, to, 0).st = State
        /\ transfer_from(State, c, from, to, 0).st = State

\* C6 witness: a transfer_from has succeeded while no account holds a token
\* (so its amount was 0) and an allowance is outstanding.
C6_Witness ==
    /\ last = [op |-> "transfer_from", kind |-> "Ok"]
    /\ \A a \in Address : balances[a] = 0
    /\ allowances["a1"]["a2"] > 0

\* C7: transfer_from(from, to, amount > 0) by spender S succeeds only if
\* allowance[from][S] >= amount, on success lowers that allowance by exactly
\* amount together with the balance move, and on any failure leaves the
\* allowances and the balances exactly as before the call.
C7_AllowanceAndDebitAtomic ==
    \A sp \in Callers, from \in Callers, to \in Users, a \in 1..U256_MAX :
        LET r == transfer_from(State, sp, from, to, a) IN
        /\ r.res.kind = "Ok" =>
              /\ allowances[from][sp] >= a
              /\ r.st.allowances[from][sp] = allowances[from][sp] - a
        /\ r.res.kind # "Ok" =>
              /\ r.st.allowances = allowances
              /\ r.st.balances = balances

\* the amounts the batch properties range over
BatchAmounts == {0, 2}

\* C8: a batch_transfer or batch_approve call that fails leaves every
\* balance and every allowance as before the call, whatever elements came
\* before the failing one.
C8_BatchAllOrNothing ==
    [][(last'.op \in {"batch_transfer", "batch_approve"} /\ last'.kind # "Ok")
          => (balances' = balances /\ allowances' = allowances)]_vars

\* C9: batch_transfer with lists of different lengths fails with
\* BatchTransferLengthMismatch, batch_approve with lists of different
\* lengths fails with BatchApproveLengthMismatch, and neither changes a
\* balance or an allowance.
C9_LengthMismatchRejected ==
    \A c \in Callers :
        \A rs \in SeqsUpTo(BatchRecipients, MaxBatch + 1),
           as \in SeqsUpTo({U256_MAX}, MaxBatch + 1) :
            LET rt == batch_transfer(State, c, rs, as)
                ra == batch_approve(State, c, rs, as)
            IN Len(rs) # Len(as) =>
                  /\ rt.res.kind = "BatchTransferLengthMismatch"
                  /\ rt.st = State
                  /\ ra.res.kind = "BatchApproveLengthMismatch"
                  /\ ra.st = State

\* C9 witness: a batch_transfer was refused for its lengths while the sender
\* held tokens and the ledger was paused.
C9_Witness ==
    /\ last = [op |-> "batch_transfer", kind |-> "BatchTransferLengthMismatch"]
    /\ balances["a1"] > 0
    /\ paused

\* a call was rejected and changed nothing
Rejected(r) == r.res.kind # "Ok" /\ r.st = State

\* C10: while paused, transfer, transfer_from, batch_transfer,
\* transfer_with_checks, transfer_from_with_checks, mint, mint_with_checks,
\* burn and burn_from are rejected for every caller and every argument,
\* amount 0 included, and change no balance, allowance or total_supply.
C10_PausedRejectsValueMoves ==
    paused =>
        \A c \in Callers :
            /\ \A to \in Address, a \in U256 :
                  /\ Rejected(transfer(State, c, to, a))
                  /\ Rejected(transfer_with_checks(State, c, to, a))
                  /\ Rejected(mint(State, c, to, a))
                  /\ Rejected(mint_with_checks(State, c, to, a))
            /\ \A from \in Address, to \in Address, a \in U256 :
                  /\ Rejected(transfer_from(State, c, from, to, a))
                  /\ Rejected(transfer_from_with_checks(State, c, from, to, a))
            /\ \A a \in U256 : Rejected(burn(State, c, a))
            /\ \A from \in Address, a \in U256 :
                  Rejected(burn_from(State, c, from, a))
            /\ \A k \in 0..MaxBatch :
                  \A rs \in [1..k -> BatchRecipients],
                     as \in [1..k -> BatchAmounts] :
                      Rejected(batch_transfer(State, c, rs, as))

\* C10 witness: a transfer_from was refused for the pause although the
\* spender had an allowance and the holder had tokens.
C10_Witness ==
    /\ paused
    /\ last = [op |-> "transfer_from", kind |-> "ContractPaused"]
    /\ allowances["a1"]["a2"] > 0
    /\ balances["a1"] > 0

\* a call refused for the blacklisted account acct, no balance changed
RefusedFor(r, acct) ==
    /\ r.res.kind = "AddressBlacklisted"
    /\ r.res.args = <<acct>>
    /\ r.st.balances = balances

\* the endpoint the blacklist check names: the holder first, then the recipient
Listed(from, to) == IF blacklisted[from] THEN from ELSE to

\* C11: while blacklist_enabled, a call that would move amount > 0 from or
\* to a blacklisted account (not paused, recipient non-null, balance and
\* allowance sufficient) fails with AddressBlacklisted{account} and changes
\* no balance, for transfer, transfer_from, batch_transfer,
\* transfer_with_checks and transfer_from_with_checks alike.
C11_BlacklistBlocksTransfers ==
    (blacklist_enabled /\ ~paused) =>
        \A c \in Callers, from \in Callers, to \in Users, a \in 1..U256_MAX :
            /\ (balances[c] >= a /\ (blacklisted[c] \/ blacklisted[to])) =>
                  /\ RefusedFor(transfer(State, c, to, a), Listed(c, to))
                  /\ RefusedFor(transfer_with_checks(State, c, to, a),
                                Listed(c, to))
                  /\ RefusedFor(batch_transfer(State, c, <<to>>, <<a>>),
                                Listed(c, to))
            /\ (/\ balances[from] >= a
                /\ allowances[from][c] >= a
                /\ (blacklisted[from] \/ blacklisted[to])) =>
                  /\ RefusedFor(transfer_from(State, c, from, to, a),
                                Listed(from, to))
                  /\ RefusedFor(
                        transfer_from_with_checks(State, c, from, to, a),
                        Listed(from, to))

\* storage after the pending owner has taken over
Accepted(S) ==
    [S EXCEPT !.owner = S.pending_owner,
              !.pending_owner = ZERO,
              !.ownership_unlock_time = 0]

\* accept_ownership by the pending owner of storage S at time t, against
\* the unlock time `unlock`
AcceptAt(S, t, unlock) ==
    LET r == accept_ownership(S, S.pending_owner, t) IN
    IF t < unlock
    THEN /\ r.res.kind = "OwnershipTransferNotYetUnlockable"
         /\ r.res.args = <<t, unlock>>
         /\ r.st = S
    ELSE /\ r.res.kind = "Ok"
         /\ r.st = Accepted(S)

\* what initiate_ownership_transfer(n) by the owner at the current time
\* records, and what accept_ownership by the pending owner then does
InitiateRecords(n) ==
    LET r == initiate_ownership_transfer(State, owner, epoch, n) IN
    /\ r.res.kind = "Ok"
    /\ r.st = [State EXCEPT
                  !.pending_owner = n,
                  !.ownership_unlock_time = epoch + ownership_transfer_delay]
    /\ \A t \in U256 : AcceptAt(r.st, t, epoch + ownership_transfer_delay)

\* C12 as stated: initiate_ownership_transfer by the owner at time t with
\* delay d records unlock_time = t + d, whatever t and d are, and
\* accept_ownership by the pending owner fails before t + d and succeeds
\* from t + d on.
C12_InitiateAlwaysRecords ==
    /\ owner # ZERO => \A n \in Users : InitiateRecords(n)
    /\ pending_owner # ZERO =>
          \A t \in U256 : AcceptAt(State, t, ownership_unlock_time)

\* C12 (amended): initiate_ownership_transfer by the owner at time t with
\* delay d records the new pending owner with unlock_time = t + d when
\* t + d is a representable word, and fails with InvalidAmount when the sum
\* overflows (changing nothing when no transfer was pending);
\* accept_ownership by the pending owner fails with
\* OwnershipTransferNotYetUnlockable{time, unlock_time} and changes nothing
\* at every time < unlock_time, and at every time >= unlock_time succeeds,
\* makes the pending owner the owner and clears pending_owner and
\* unlock_time.
C12_AcceptOnlyAfterUnlock ==
    /\ owner # ZERO =>
          \A n \in Users :
              IF epoch + ownership_transfer_delay <= U256_MAX
              THEN InitiateRecords(n)
              ELSE LET r == initiate_ownership_transfer(State, owner, epoch, n)
                   IN /\ r.res.kind = "InvalidAmount"
                      /\ pending_owner = ZERO => r.st = State
    /\ pending_owner # ZERO =>
          \A t \in U256 : AcceptAt(State, t, ownership_unlock_time)

\* C12 witness: a2 has taken over from a1 under the delay set at
\* initialization, no earlier than that delay after deployment.
C12_Witness ==
    /\ last = [op |-> "accept_ownership", kind |-> "Ok"]
    /\ owner = "a2"
    /\ ownership_transfer_delay = DEFAULT_OWNERSHIP_DELAY
    /\ epoch >= DEFAULT_OWNERSHIP_DELAY

\* C13: accept_ownership succeeds only for the pending owner: with no
\* pending transfer it fails with NoPendingOwnershipTransfer, and for every
\* caller other than pending_owner, the owner included, it fails at every
\* time; a failed call leaves owner, pending_owner and unlock_time alone.
C13_OnlyPendingOwnerAccepts ==
    \A c \in Users, t \in U256 :
        LET r == accept_ownership(State, c, t) IN
        /\ pending_owner = ZERO =>
              r.res.kind = "NoPendingOwnershipTransfer"
        /\ c # pending_owner => r.res.kind # "Ok"
        /\ r.res.kind # "Ok" => r.st = State

\* C13 witness: the owner, who is not the pending owner, was refused after
\* the lock had run out.
C13_Witness ==
    /\ last = [op |-> "accept_ownership", kind |-> "NotOwner"]
    /\ pending_owner = "a2"
    /\ owner = "a1"
    /\ epoch >= ownership_unlock_time

\* what initiate_ownership_transfer(n2) by the owner does to a pending
\* transfer
C14_SupersedeOutcome ==
    (owner # ZERO /\ pending_owner # ZERO) =>
        \A n2 \in Users :
            LET r == initiate_ownership_transfer(State, owner, epoch, n2)
                fits == epoch + ownership_transfer_delay <= U256_MAX
            IN
            /\ fits =>
                  /\ r.res.kind = "Ok"
                  /\ r.st = [State EXCEPT
                                !.pending_owner = n2,
                                !.ownership_unlock_time =
                                    epoch + ownership_transfer_delay]
                  /\ pending_owner # n2 =>
                        \A t \in U256 :
                            accept_ownership(r.st, pending_owner, t).res.kind
                                # "Ok"
            /\ ~fits => r.res.kind = "InvalidAmount"

\* C14 (amended): the owner's initiate_ownership_transfer(N2) while a
\* transfer to N1 is pending succeeds when now + delay is a representable
\* word, and then the pending owner is N2 with unlock_time = now + delay
\* and N1 cannot accept the superseded transfer at any time; when the sum
\* overflows the call fails with InvalidAmount.  A pending owner only ever
\* appears through a successful initiate, and there is one pending slot,
\* whose unlock_time is 0 whenever it is empty.
C14_NewTransferSupersedes ==
    /\ []C14_SupersedeOutcome
    /\ [](pending_owner = ZERO => ownership_unlock_time = 0)
    /\ [][(pending_owner' # pending_owner /\ pending_owner' # ZERO) =>
             (/\ last'.op = "initiate_ownership_transfer"
              /\ last'.kind = "Ok")]_vars

\* C14 as first stated: the superseding call always succeeds.
C14_SupersedeAlwaysSucceeds ==
    (owner # ZERO /\ pending_owner # ZERO) =>
        \A n2 \in Users :
            LET r == initiate_ownership_transfer(State, owner, epoch, n2) IN
            /\ r.res.kind = "Ok"
            /\ r.st.pending_owner = n2
            /\ r.st.ownership_unlock_time = epoch + ownership_transfer_delay

\* C14 witness: a transfer to a3 has replaced a pending transfer to a2.
C14_Witness ==
    /\ last.op = "initiate_ownership_transfer"
    /\ last.kind = "Ok"
    /\ last.replaced = "a2"
    /\ pending_owner = "a3"

\* C15: cancel_ownership_transfer is refused with NotOwner for every caller
\* but the owner; by the owner it fails with NoPendingOwnershipTransfer
\* when nothing is pending, and otherwise clears pending_owner and
\* unlock_time and leaves owner and everything else alone, after which
\* accept_ownership by the former pending owner fails at every time.
C15_CancelClearsPending ==
    \A c \in Users :
        LET r == cancel_ownership_transfer(State, c) IN
        IF c # owner
        THEN r.res.kind = "NotOwner" /\ r.st = State
        ELSE IF pending_owner = ZERO
        THEN r.res.kind = "NoPendingOwnershipTransfer" /\ r.st = State
        ELSE /\ r.res.kind = "Ok"
             /\ r.st = [State EXCEPT !.pending_owner = ZERO,
                                     !.ownership_unlock_time = 0]
             /\ \A t \in U256 :
                   accept_ownership(r.st, pending_owner, t).res.kind # "Ok"

\* C15 witness: the owner has cancelled a pending transfer after time has
\* moved on.
C15_Witness ==
    /\ last = [op |-> "cancel_ownership_transfer", kind |-> "Ok"]
    /\ owner = "a1"
    /\ pending_owner = ZERO
    /\ epoch > 0

\* C16: for every snapshot id s >= 1 that balance_of_at / total_supply_at
\* answer, a later transfer, mint or burn leaves the answers for s as they
\* were: balance_of_at(a, s) and total_supply_at(s) keep returning the
\* values of the snapshot, not the live ones.
C16_SnapshotValuesFrozen ==
    [][last'.op \in {"transfer", "mint", "burn"} =>
         \A s \in 1..U256_MAX :
             total_supply_at(State, s).kind = "Ok" =>
                 /\ total_supply_at(State', s) = total_supply_at(State, s)
                 /\ \A a \in Users :
                       balance_of_at(State', a, s) = balance_of_at(State, a, s)
      ]_vars

\* what snapshot() and finalize_snapshot() by the owner do in the current
\* state
C17_SnapshotOutcome ==
    (initialized /\ owner # ZERO) =>
        LET r == snapshot(State, owner)
            f == finalize_snapshot(State, owner)
        IN
        IF current_snapshot_id # 0
        THEN /\ r.res.kind = "SnapshotInProgress"
             /\ r.st = State
             /\ f.res = OkWith(current_snapshot_id)
             /\ f.st = [State EXCEPT
                           !.next_snapshot_id = next_snapshot_id + 1,
                           !.current_snapshot_id = 0]
        ELSE /\ r.res = OkWith(next_snapshot_id)
             /\ r.st = [State EXCEPT
                           !.current_snapshot_id = next_snapshot_id]
             /\ f.res.kind = "SnapshotNotFound"
             /\ f.st = State

\* C17 as stated: snapshot() by the owner fails with SnapshotInProgress
\* whenever current_snapshot_id # 0 and otherwise sets current_snapshot_id
\* to next_snapshot_id and returns it; finalize_snapshot() fails with
\* SnapshotNotFound when current_snapshot_id = 0 and otherwise adds one to
\* next_snapshot_id and resets current_snapshot_id to 0.
C17_SnapshotStateMachine == []C17_SnapshotOutcome

\* what snapshot() and finalize_snapshot() by the owner do in the current
\* state, the snapshot on the last id of the word included:
\* finalize_snapshot() refuses that one with InvalidAmount
C17_SnapshotOutcomeChecked ==
    (initialized /\ owner # ZERO) =>
        LET r == snapshot(State, owner)
            f == finalize_snapshot(State, owner)
        IN
        IF current_snapshot_id = 0
        THEN /\ r.res = OkWith(next_snapshot_id)
             /\ r.st = [State EXCEPT
                           !.current_snapshot_id = next_snapshot_id]
             /\ f.res.kind = "SnapshotNotFound"
             /\ f.st = State
        ELSE /\ r.res.kind = "SnapshotInProgress"
             /\ r.st = State
             /\ IF current_snapshot_id = U256_MAX
                THEN /\ f.res.kind = "InvalidAmount"
                     /\ f.st = State
                ELSE /\ f.res = OkWith(current_snapshot_id)
                     /\ f.st = [State EXCEPT
                                   !.next_snapshot_id = next_snapshot_id + 1,
                                   !.current_snapshot_id = 0]

\* C17 (amended): snapshot() by the owner fails with SnapshotInProgress
\* whenever current_snapshot_id # 0 and otherwise sets current_snapshot_id
\* to next_snapshot_id and returns it; finalize_snapshot() fails with
\* SnapshotNotFound when current_snapshot_id = 0, fails with InvalidAmount
\* and changes nothing when current_snapshot_id is the largest word, and
\* otherwise adds one to next_snapshot_id and resets current_snapshot_id to
\* 0.  The ids start at 1, the id in progress is the only one and equals
\* next_snapshot_id, a successful snapshot() returns next_snapshot_id, and
\* that counter never goes down, so successive ids are 1, 2, 3, ...
C17_SnapshotStateMachineChecked ==
    /\ []C17_SnapshotOutcomeChecked
    /\ [](initialized =>
            /\ next_snapshot_id >= 1
            /\ current_snapshot_id \in {0, next_snapshot_id})
    /\ [][(last'.op = "snapshot" /\ last'.kind = "Ok") =>
             (/\ current_snapshot_id = 0
              /\ last'.id = next_snapshot_id
              /\ current_snapshot_id' = last'.id
              /\ next_snapshot_id' = next_snapshot_id)]_vars
    /\ [][initialized =>
             next_snapshot_id' \in {next_snapshot_id, next_snapshot_id + 1}
         ]_vars

\* C17 witness: the snapshot on the last id was started after the earlier
\* ones were finalized, and finalize_snapshot() has just refused it.
C17_Witness ==
    /\ last = [op |-> "finalize_snapshot", kind |-> "InvalidAmount"]
    /\ current_snapshot_id = U256_MAX
    /\ next_snapshot_id = U256_MAX

\* a call refused for want of the admin role, nothing changed
Denied(r, c, admin_role) ==
    /\ r.res.kind = "AccessDenied"
    /\ r.res.args = <<c, admin_role>>
    /\ r.st = State

\* what grant_role and revoke_role answer to a caller without the admin
\* role, and to an admin naming the null address
C18_GrantRevokeGuarded ==
    \A c \in Users, ro \in Roles, a \in Address :
        LET g == grant_role(State, c, ro, a)
            v == revoke_role(State, c, ro, a)
        IN
        IF ~roles[role_admins[ro]][c]
        THEN Denied(g, c, role_admins[ro]) /\ Denied(v, c, role_admins[ro])
        ELSE a = ZERO =>
                /\ g.res.kind = "ZeroAddress" /\ g.st = State
                /\ v.res.kind = "ZeroAddress" /\ v.st = State

\* C18: a membership (R, A) turns from false to true only in initialize or
\* in a successful grant_role(R, A) whose caller holds the admin role of R;
\* grant_role and revoke_role by a caller without that admin role fail with
\* AccessDenied{caller, admin role} and change nothing; by a caller with
\* it, a null target fails with ZeroAddress and changes nothing.
C18_MembershipOnlyByAdminGrant ==
    /\ []C18_GrantRevokeGuarded
    /\ [][\A ro \in Roles, a \in Address :
             (~roles[ro][a] /\ roles'[ro][a]) =>
                 \/ last'.op = "initialize"
                 \/ /\ last'.op = "grant_role"
                    /\ last'.kind = "Ok"
                    /\ last'.role = ro
                    /\ last'.account = a
                    /\ roles[role_admins[ro]][last'.caller]
         ]_vars

\* C18 witness: the admin a1 has granted a2 the minter role.
C18_Witness ==
    /\ last = [op |-> "grant_role", kind |-> "Ok", caller |-> "a1",
               role |-> MINTER_ROLE, account |-> "a2"]
    /\ roles[MINTER_ROLE]["a2"]
    /\ ~roles[ADMIN_ROLE]["a2"]

\* C19: by a caller holding the admin role of R, grant_role(R, A) for an A
\* that already holds R fails with RoleAlreadyGranted{R, A}, and
\* revoke_role(R, A) for an A that does not hold R fails with
\* RoleAlreadyRevoked{R, A}; neither changes any membership.
C19_GrantRevokeNotIdempotent ==
    \A c \in Users, ro \in Roles, a \in Users :
        roles[role_admins[ro]][c] =>
            LET g == grant_role(State, c, ro, a)
                v == revoke_role(State, c, ro, a)
            IN
            /\ roles[ro][a] =>
                  /\ g.res = Err("RoleAlreadyGranted", <<ro, a>>)
                  /\ g.st = State
            /\ ~roles[ro][a] =>
                  /\ v.res = Err("RoleAlreadyRevoked", <<ro, a>>)
                  /\ v.st = State

\* C19 witness: the revoke of a role not held was refused while a1 is an
\* admin and a2 holds the pauser role by an earlier grant.
C19_Witness ==
    /\ last = [op |-> "revoke_role", kind |-> "RoleAlreadyRevoked"]
    /\ roles[ADMIN_ROLE]["a1"]
    /\ roles[PAUSER_ROLE]["a2"]

\* C20: renounce_role(R) by any caller C succeeds, whether or not C holds
\* R or any admin role; afterwards C does not hold R, and nothing else,
\* no other membership included, is changed.
C20_RenounceAlwaysSucceeds ==
    \A c \in Users, ro \in Roles :
        LET r == renounce_role(State, c, ro) IN
        /\ r.res.kind = "Ok"
        /\ ~r.st.roles[ro][c]
        /\ r.st = [State EXCEPT !.roles[ro][c] = FALSE]

\* C20 witness: the initial admin has renounced the admin role and kept
\* its other roles.
C20_Witness ==
    /\ last = [op |-> "renounce_role", kind |-> "Ok"]
    /\ initialized
    /\ ~roles[ADMIN_ROLE]["a1"]
    /\ roles[MINTER_ROLE]["a1"]
    /\ roles[PAUSER_ROLE]["a1"]

\* the results of every owner-gated call by caller c in the current state
OwnerGatedCalls(c) ==
    {mint(State, c, to, a) : to \in Address, a \in U256}
    \cup {pause(State, c), unpause(State, c), renounce_ownership(State, c),
          snapshot(State, c), finalize_snapshot(State, c),
          cancel_ownership_transfer(State, c)}
    \cup {transfer_ownership(State, c, n) : n \in Address}
    \cup {initiate_ownership_transfer(State, c, epoch, n) : n \in Address}
    \cup {set_ownership_transfer_delay(State, c, d) : d \in U256}
    \cup {set_supply_cap(State, c, n) : n \in U256}
    \cup {set_supply_cap_enabled(State, c, e) : e \in BOOLEAN}
    \cup {set_blacklist_enabled(State, c, e) : e \in BOOLEAN}
    \cup {set_transfer_restrictions_enabled(State, c, e) : e \in BOOLEAN}
    \cup {blacklist(State, c, a) : a \in Address}
    \cup {unblacklist(State, c, a) : a \in Address}
    \cup {set_emergency_admin(State, c, a) : a \in Address}
    \cup {set_guardian(State, c, a) : a \in Address}
    \cup {add_to_whitelist(State, c, a) : a \in Address}
    \cup {remove_from_whitelist(State, c, a) : a \in Address}
    \cup {set_minting_limits(State, c, l, d) : l \in U256, d \in U256}

\* C21: an owner-gated call by a caller other than the owner fails with
\* NotOwner{caller, owner} and changes nothing, whatever roles the caller
\* holds, while the owner can pause or unpause without any role; a
\* role-gated call (mint_with_checks, pause_with_role, unpause_with_role) by
\* a caller without the role fails with AccessDenied{caller, role} and
\* changes nothing, owner or not, while a PAUSER_ROLE holder can pause or
\* unpause through the role variants without being the owner.
C21_OwnerAndRoleIndependent ==
    \A c \in Users :
        /\ c # owner =>
              \A r \in OwnerGatedCalls(c) :
                  r.res = Err("NotOwner", <<c, owner>>) /\ r.st = State
        /\ c = owner =>
              \/ pause(State, c).res.kind = "Ok"
              \/ unpause(State, c).res.kind = "Ok"
        /\ ~roles[MINTER_ROLE][c] =>
              \A to \in Address, a \in U256 :
                  LET r == mint_with_checks(State, c, to, a) IN
                  r.res = Err("AccessDenied", <<c, MINTER_ROLE>>) /\ r.st = State
        /\ ~roles[PAUSER_ROLE][c] =>
              \A r \in {pause_with_role(State, c), unpause_with_role(State, c)} :
                  r.res = Err("AccessDenied", <<c, PAUSER_ROLE>>) /\ r.st = State
        /\ roles[PAUSER_ROLE][c] =>
              \/ pause_with_role(State, c).res.kind = "Ok"
              \/ unpause_with_role(State, c).res.kind = "Ok"

\* C21 witness: a1 keeps PAUSER_ROLE after handing ownership to a2, who holds
\* no role; a1's pause was refused with NotOwner, and the ledger is paused
\* (by a2 as owner or by a1 through the role).
C21_Witness ==
    /\ last = [op |-> "pause", kind |-> "NotOwner"]
    /\ owner = "a2"
    /\ roles[PAUSER_ROLE]["a1"]
    /\ ~roles[PAUSER_ROLE]["a2"]
    /\ paused

\* C22: for every owner o, non-null spender s and amount A, after
\* approve(s, A) by o a decrease_allowance(s, A) succeeds and leaves
\* allowance[o][s] = 0 with nothing else changed, whereas a
\* decrease_allowance(s, A + 1) fails with InsufficientAllowance{A, A + 1}
\* and leaves allowance[o][s] = A (A + 1 being an amount, that is
\* A < U256_MAX).
C22_DecreaseAfterApprove ==
    \A o \in Callers, sp \in Users, A \in U256 :
        LET S1 == approve(State, o, sp, A).st
            exact == decrease_allowance(S1, o, sp, A)
        IN /\ approve(State, o, sp, A).res.kind = "Ok"
           /\ exact.res.kind = "Ok"
           /\ exact.st = [S1 EXCEPT !.allowances[o][sp] = 0]
           /\ A < U256_MAX =>
                 LET over == decrease_allowance(S1, o, sp, A + 1) IN
                 /\ over.res = Err("InsufficientAllowance", <<A, A + 1>>)
                 /\ over.st = S1
                 /\ over.st.allowances[o][sp] = A

\* C22 witness: a1's decrease_allowance for a2 was refused while a1's
\* allowance for a2 stands at 2 (so the decrease asked for 3) and a2's own
\* allowance is at the maximum, where no decrease can be refused.
C22_Witness ==
    /\ last = [op |-> "decrease_allowance", kind |-> "InsufficientAllowance"]
    /\ allowances["a1"]["a2"] = 2
    /\ allowances["a2"]["a2"] = U256_MAX

\* C23: when not paused, burn(amount > 0) by C with balance[C] >= amount
\* lowers balance[C] and total_supply by exactly amount and changes nothing
\* else; burn_from(owner, amount > 0) by S with allowance[owner][S] >= amount
\* does the same to owner's balance and also lowers that allowance by
\* exactly amount; either call fails with InsufficientBalance when the
\* debited balance is below amount, and then balances, total_supply and the
\* allowance are all unchanged.
C23_BurnExact ==
    ~paused =>
        \A c \in Callers, a \in 1..U256_MAX :
            /\ LET r == burn(State, c, a) IN
               IF balances[c] >= a
               THEN /\ r.res.kind = "Ok"
                    /\ r.st = [State EXCEPT !.balances[c] = @ - a,
                                            !.total_supply = @ - a]
               ELSE /\ r.res.kind = "InsufficientBalance"
                    /\ r.st = State
            /\ \A from \in Callers :
                  LET r == burn_from(State, c, from, a) IN
                  allowances[from][c] >= a =>
                      IF balances[from] >= a
                      THEN /\ r.res.kind = "Ok"
                           /\ r.st = [State EXCEPT
                                        !.balances[from] = @ - a,
                                        !.total_supply = @ - a,
                                        !.allowances[from][c] = @ - a]
                      ELSE /\ r.res.kind = "InsufficientBalance"
                           /\ r.st = State

\* C24: transfer, and mint called by the owner, with the null address as
\* recipient fail for every amount (0 included) and every sender balance and
\* change no state; the error kind is ZeroAddress when the ledger is not
\* paused and ContractPaused when it is.
C24_NullRecipientRejected ==
    \A c \in Callers, a \in U256 :
        LET rt == transfer(State, c, ZERO, a)
            rm == mint(State, c, ZERO, a)
            kind == IF paused THEN "ContractPaused" ELSE "ZeroAddress"
        IN /\ rt.res.kind = kind
           /\ rt.st = State
           /\ c = owner => (rm.res.kind = kind /\ rm.st = State)

\* C24 as first stated: transfer and mint to the null address fail with the
\* error kind InvalidRecipient and change no state.
C24_NullRecipientIsInvalidRecipient ==
    \A c \in Callers, a \in U256 :
        LET rt == transfer(State, c, ZERO, a)
            rm == mint(State, c, ZERO, a)
        IN /\ rt.res.kind = "InvalidRecipient"
           /\ rt.st = State
           /\ c = owner => (rm.res.kind = "InvalidRecipient" /\ rm.st = State)

\* C24 witness: a transfer to the null address was refused with ZeroAddress
\* while both callers held tokens.
C24_Witness ==
    /\ last = [op |-> "transfer", kind |-> "ZeroAddress"]
    /\ balances["a1"] > 0
    /\ balances["a2"] > 0

\* in an initialized ledger every initialize call is refused and changes
\* nothing
C25_SecondInitializeRefused ==
    initialized =>
        \A d \in Decimals, s \in U256, o \in Address :
            initialize(State, d, s, o) =
                Ret(State, Err("AlreadyInitialized", <<>>))

\* C25: initialize succeeds at most once: it succeeds only on a ledger not
\* yet initialized, the initialized flag is never cleared again, and from
\* then on every initialize call, with any arguments, fails with
\* AlreadyInitialized and leaves owner, roles, balances, total_supply and
\* all configuration unchanged.
C25_InitializeOnce ==
    /\ []C25_SecondInitializeRefused
    /\ [][initialized => initialized']_vars
    /\ [][(last'.op = "initialize" /\ last'.kind = "Ok") => ~initialized]_vars

\* C25 witness: an initialize call was refused with AlreadyInitialized after
\* the ledger had been changed by other calls (tokens moved to a2, paused).
C25_Witness ==
    /\ last = [op |-> "initialize", kind |-> "AlreadyInitialized"]
    /\ balances["a2"] > 0
    /\ paused

\* no initialize, transfer_ownership, initiate_ownership_transfer or
\* accept_ownership call in the current state ends in an initialized ledger
\* with a null owner, unless the ledger is one already
C26_NoNullOwnerFromCalls ==
    ~(initialized /\ owner = ZERO) =>
        LET NullOwner(r) == r.st.initialized /\ r.st.owner = ZERO IN
        /\ \A d \in Decimals, s \in U256, o \in Address :
              ~NullOwner(initialize(State, d, s, o))
        /\ \A c \in Users, n \in Address :
              /\ ~NullOwner(transfer_ownership(State, c, n))
              /\ ~NullOwner(initiate_ownership_transfer(State, c, epoch, n))
              /\ ~NullOwner(accept_ownership(State, c, epoch))

\* C26: after initialization the owner field is the null address only in
\* states reached through a successful renounce_ownership: a step into an
\* initialized ledger with a null owner is a successful renounce_ownership,
\* and initialize, transfer_ownership, initiate_ownership_transfer and
\* accept_ownership never produce one.
C26_NullOwnerOnlyByRenounce ==
    /\ []C26_NoNullOwnerFromCalls
    /\ [][(initialized' /\ owner' = ZERO /\ ~(initialized /\ owner = ZERO))
            => last' = [op |-> "renounce_ownership", kind |-> "Ok"]]_vars

\* C26 witness: the owner has renounced while a hand-over to a2 was pending;
\* the ledger is initialized and has no owner.
C26_Witness ==
    /\ last = [op |-> "renounce_ownership", kind |-> "Ok"]
    /\ initialized
    /\ owner = ZERO
    /\ pending_owner = "a2"

\* C27: validate-then-commit: every check that can fail a call is evaluated
\* before the call's first storage write, so a call that returns an error
\* has written to no stored field.
C27_ValidateThenCommit == [][last'.kind # "Ok" => UNCHANGED storage]_vars

\* transfer(recipients[i], amounts[i]) called one after the other by sender
\* from element i on, stopping at the first call that fails
RECURSIVE TransfersInOrder(_, _, _, _, _)
TransfersInOrder(S, sender, recipients, amounts, i) ==
    IF i > Len(recipients) THEN Ret(S, Ok)
    ELSE LET r == transfer(S, sender, recipients[i], amounts[i]) IN
         IF r.res.kind # "Ok" THEN r
         ELSE TransfersInOrder(r.st, sender, recipients, amounts, i + 1)

\* C28: batch_transfer(recipients, amounts) with lists of equal length
\* succeeds exactly when transfer(recipients[i], amounts[i]), called for i
\* in order by the same caller from the same state, succeeds every time,
\* and then leaves the same balances; an element with a null recipient
\* fails the batch as it fails transfer.
C28_BatchTransferIsTransfers ==
    \A c \in Callers, k \in 0..MaxBatch :
        \A rs \in [1..k -> BatchRecipients], as \in [1..k -> BatchValues] :
            LET b == batch_transfer(State, c, rs, as)
                t == TransfersInOrder(State, c, rs, as, 1)
            IN /\ (b.res.kind = "Ok") <=> (t.res.kind = "Ok")
               /\ b.res.kind = "Ok" => b.st.balances = t.st.balances

\* approve(spenders[i], amounts[i]) called one after the other by sender
\* from element i on, stopping at the first call that fails
RECURSIVE ApprovesInOrder(_, _, _, _, _)
ApprovesInOrder(S, sender, spenders, amounts, i) ==
    IF i > Len(spenders) THEN Ret(S, Ok)
    ELSE LET r == approve(S, sender, spenders[i], amounts[i]) IN
         IF r.res.kind # "Ok" THEN r
         ELSE ApprovesInOrder(r.st, sender, spenders, amounts, i + 1)

\* C29: batch_approve(spenders, amounts) with lists of equal length succeeds
\* exactly when approve(spenders[i], amounts[i]), called for i in order by
\* the same caller from the same state, succeeds every time, in every
\* ledger state, paused ones included, and then leaves the same allowances.
C29_BatchApproveIsApproves ==
    \A c \in Callers, k \in 0..MaxBatch :
        \A ss \in [1..k -> Spenders], as \in [1..k -> BatchValues] :
            LET b == batch_approve(State, c, ss, as)
                t == ApprovesInOrder(State, c, ss, as, 1)
            IN /\ (b.res.kind = "Ok") <=> (t.res.kind = "Ok")
               /\ b.res.kind = "Ok" => b.st.allowances = t.st.allowances

\* C30: credit overflow is unreachable in transfers: in every reachable
\* state, for every transfer, transfer_from or batch_transfer of amount > 0
\* whose sender holds at least amount, balance[to] + amount does not exceed
\* U256_MAX, and the call does not end in the InvalidAmount of the credit
\* step.
C30_CreditNeverOverflows ==
    ~paused =>
        \A c \in Callers, from \in Callers, to \in Users, a \in 1..U256_MAX :
            /\ balances[c] >= a =>
                  /\ balances[to] + a <= U256_MAX
                  /\ transfer(State, c, to, a).res.kind # "InvalidAmount"
                  /\ batch_transfer(State, c, <<to>>, <<a>>).res.kind
                        # "InvalidAmount"
            /\ balances[from] >= a =>
                  transfer_from(State, c, from, to, a).res.kind
                      # "InvalidAmount"

\* what a caller and the ledger show of a call: its result and the
\* balances, allowances and total_supply it leaves
Seen(r) ==
    [res |-> r.res, balances |-> r.st.balances,
     allowances |-> r.st.allowances, total_supply |-> r.st.total_supply]

\* every value-moving, allowance and pause call on storage S, by caller and
\* arguments
CallResults(S) ==
    << [c \in Callers, to \in Address, a \in U256 |->
            <<Seen(transfer(S, c, to, a)),
              Seen(transfer_with_checks(S, c, to, a)),
              Seen(mint(S, c, to, a)),
              Seen(mint_with_checks(S, c, to, a)),
              Seen(approve(S, c, to, a)),
              Seen(increase_allowance(S, c, to, a)),
              Seen(decrease_allowance(S, c, to, a)),
              Seen(burn_from(S, c, to, a))>>],
       [c \in Callers, from \in Callers, to \in Address, a \in U256 |->
            <<Seen(transfer_from(S, c, from, to, a)),
              Seen(transfer_from_with_checks(S, c, from, to, a)),
              \* the same call once `from` has approved the amount
              Seen(transfer_from_with_checks(approve(S, from, c, a).st,
                                             c, from, to, a))>>],
       [c \in Callers, a \in U256 |-> Seen(burn(S, c, a))],
       [c \in Callers |->
            <<Seen(pause(S, c)), Seen(unpause(S, c)),
              Seen(pause_with_role(S, c)), Seen(unpause_with_role(S, c))>>],
       [c \in Callers, rs \in SeqsUpTo(BatchRecipients, MaxBatch) |->
            <<Seen(batch_transfer(S, c, rs, [i \in 1..Len(rs) |-> 1])),
              Seen(batch_approve(S, c, rs, [i \in 1..Len(rs) |-> 1]))>>] >>

\* the current storage with the whitelist emptied and restrictions off
WhitelistCleared ==
    [State EXCEPT !.transfer_restrictions_enabled = FALSE,
                  !.transfer_whitelist = [a \in Address |-> FALSE]]

\* C31: the transfer whitelist is a no-op: every call returns the same
\* result and leaves the same balances, allowances and total_supply in the
\* current ledger as in the ledger that differs from it only by an empty
\* whitelist with restrictions off; hence any two ledgers that differ only
\* in transfer_restrictions_enabled and transfer_whitelist agree on every
\* call, transfer_with_checks and transfer_from_with_checks included.
C31_WhitelistIsNoOp == CallResults(State) = CallResults(WhitelistCleared)

\* C31 witness: a transfer_with_checks has succeeded and moved a token to a2
\* while restrictions were on and no account was on the whitelist.
C31_Witness ==
    /\ last = [op |-> "transfer_with_checks", kind |-> "Ok"]
    /\ transfer_restrictions_enabled
    /\ \A a \in Address : ~transfer_whitelist[a]
    /\ balances["a2"] > 0
    /\ balances["a1"] > 0

\* storage S with nobody on the blacklist
BlacklistCleared(S) == [S EXCEPT !.blacklisted = [a \in Address |-> FALSE]]

\* what C32 says of result r of a checked transfer from `from` to `to`,
\* r0 being the result of the same call with nobody on the blacklist
C32_Outcome(r, r0, from, to) ==
    /\ r.res.kind = "AddressBlacklisted"
          <=> (blacklist_enabled /\ (blacklisted[from] \/ blacklisted[to]))
    /\ ~blacklist_enabled => Seen(r) = Seen(r0)

\* C32: when not paused, transfer_with_checks(to, amount > 0) with to
\* non-null, and transfer_from_with_checks given a sufficient allowance,
\* fail with AddressBlacklisted exactly when blacklist_enabled is true and
\* the holder or the recipient is blacklisted; when blacklist_enabled is
\* false, the call gives the same result, balances, allowances and
\* total_supply as with nobody blacklisted.
C32_BlacklistGatedByFlag ==
    ~paused =>
        \A c \in Callers, from \in Callers, to \in Users, a \in 1..U256_MAX :
            /\ C32_Outcome(
                  transfer_with_checks(State, c, to, a),
                  transfer_with_checks(BlacklistCleared(State), c, to, a),
                  c, to)
            /\ LET S1 == approve(State, from, c, a).st IN
               C32_Outcome(
                  transfer_from_with_checks(S1, c, from, to, a),
                  transfer_from_with_checks(BlacklistCleared(S1), c, from,
                                            to, a),
                  from, to)

\* C32 witness: with the blacklist switched off, a transfer_with_checks has
\* succeeded and moved a token from a1 to a2 although both are blacklisted.
C32_Witness ==
    /\ last = [op |-> "transfer_with_checks", kind |-> "Ok"]
    /\ ~blacklist_enabled
    /\ blacklisted["a1"]
    /\ blacklisted["a2"]
    /\ balances["a2"] > 0
    /\ balances["a1"] > 0

\* a pausing call r by a caller who is or is not authorized for it: refused
\* with `denied` when not authorized, with ContractPaused when already
\* paused, and otherwise successful, setting the flag and nothing else
PauseOutcome(r, authorized, denied) ==
    IF ~authorized THEN r.res.kind = denied /\ r.st = State
    ELSE IF paused THEN r.res.kind = "ContractPaused" /\ r.st = State
    ELSE r.res.kind = "Ok" /\ r.st = [State EXCEPT !.paused = TRUE]

\* the same for an unpausing call
UnpauseOutcome(r, authorized, denied) ==
    IF ~authorized THEN r.res.kind = denied /\ r.st = State
    ELSE IF ~paused THEN r.res.kind = "NotContractPaused" /\ r.st = State
    ELSE r.res.kind = "Ok" /\ r.st = [State EXCEPT !.paused = FALSE]

\* the five calls that move the pause flag, for every caller
C33_PauseCallsGuarded ==
    \A c \in Users :
        /\ PauseOutcome(pause(State, c), c = owner, "NotOwner")
        /\ PauseOutcome(pause_with_role(State, c), roles[PAUSER_ROLE][c],
                        "AccessDenied")
        /\ PauseOutcome(guardian_pause(State, c),
                        guardian # ZERO /\ c = guardian, "AccessDenied")
        /\ UnpauseOutcome(unpause(State, c), c = owner, "NotOwner")
        /\ UnpauseOutcome(unpause_with_role(State, c), roles[PAUSER_ROLE][c],
                          "AccessDenied")

\* C33: the pause flag changes only through an authorized call: it goes
\* from false to true only by a successful pause (owner), pause_with_role
\* (PAUSER_ROLE holder) or guardian_pause (the configured non-null
\* guardian), and from true to false only by a successful unpause (owner)
\* or unpause_with_role (PAUSER_ROLE holder); pausing when paused fails with
\* ContractPaused, unpausing when not paused with NotContractPaused, and a
\* call by any other caller is refused and leaves the flag unchanged.
C33_PauseOnlyByAuthorizedCall ==
    /\ []C33_PauseCallsGuarded
    /\ [][(~paused /\ paused') =>
            /\ last'.op \in {"pause", "pause_with_role", "guardian_pause"}
            /\ last'.kind = "Ok"]_vars
    /\ [][(paused /\ ~paused') =>
            /\ last'.op \in {"unpause", "unpause_with_role"}
            /\ last'.kind = "Ok"]_vars

\* C33 witness: the guardian a2, who is neither owner nor PAUSER_ROLE
\* holder, has paused the ledger through guardian_pause.
C33_Witness ==
    /\ last = [op |-> "guardian_pause", kind |-> "Ok"]
    /\ paused
    /\ guardian = "a2"
    /\ owner = "a1"
    /\ ~roles[PAUSER_ROLE]["a2"]

\* C34: balance_of_at(a, id) and total_supply_at(id) succeed exactly for the
\* ids of finalized snapshots, 1 <= id < next_snapshot_id, and fail with
\* SnapshotNotFound for every other id: 0, ids never allocated, and the id
\* of a snapshot still in progress.
C34_QueryableOnlyWhenFinalized ==
    \A a \in Address, id \in U256 :
        LET kind == IF 1 <= id /\ id < next_snapshot_id
                    THEN "Ok" ELSE "SnapshotNotFound"
        IN /\ balance_of_at(State, a, id).kind = kind
           /\ total_supply_at(State, id).kind = kind

\* call r succeeded and left every balance and total_supply as they are
SucceededInPlace(r) ==
    /\ r.res.kind = "Ok"
    /\ r.st.balances = balances
    /\ r.st.total_supply = total_supply

\* C35: when not paused and with no blacklist in force, a transfer of
\* amount <= balance whose recipient is the sender (transfer, batch_transfer,
\* transfer_with_checks, and transfer_from / transfer_from_with_checks by
\* the holder on an allowance to itself) succeeds and leaves that account's
\* balance, every other balance and total_supply unchanged.
C35_SelfTransferChangesNothing ==
    (~paused /\ ~blacklist_enabled) =>
        \A c \in Callers, a \in U256 :
            balances[c] >= a =>
                LET S1 == approve(State, c, c, a).st IN
                /\ SucceededInPlace(transfer(State, c, c, a))
                /\ SucceededInPlace(transfer_with_checks(State, c, c, a))
                /\ SucceededInPlace(batch_transfer(State, c, <<c>>, <<a>>))
                /\ SucceededInPlace(transfer_from(S1, c, c, c, a))
                /\ SucceededInPlace(transfer_from_with_checks(S1, c, c, c, a))

\* C36: the balance of the null address is 0 in every reachable state: no
\* call credits tokens to the null address.
C36_NullAddressHoldsNothing == balances[ZERO] = 0

\* the accounts whose balance is lower after call r than it is now
Debited(r) == {x \in Address : r.st.balances[x] < balances[x]}

\* in the calls by which caller c moves or burns its own tokens, no balance
\* but c's goes down
OwnDebitsOnly(c) ==
    /\ \A to \in Recipients, a \in U256 :
          /\ Debited(transfer(State, c, to, a)) \subseteq {c}
          /\ Debited(transfer_with_checks(State, c, to, a)) \subseteq {c}
    /\ \A a \in U256 : Debited(burn(State, c, a)) \subseteq {c}
    /\ \A rs \in SeqsUpTo(BatchRecipients, MaxBatch) :
          Debited(batch_transfer(State, c, rs, [i \in 1..Len(rs) |-> 1]))
              \subseteq {c}

\* calls by c that take tokens from nobody: minting, granting allowances,
\* initialize and the owner's and role holders' switches
NoDebits(c) ==
    /\ \A x \in Recipients, a \in U256 :
          /\ Debited(mint(State, c, x, a)) = {}
          /\ Debited(mint_with_checks(State, c, x, a)) = {}
          /\ Debited(approve(State, c, x, a)) = {}
          /\ Debited(increase_allowance(State, c, x, a)) = {}
          /\ Debited(initialize(State, 18, a, x)) = {}
    /\ Debited(pause(State, c)) = {}
    /\ Debited(unpause(State, c)) = {}
    /\ Debited(pause_with_role(State, c)) = {}
    /\ Debited(unpause_with_role(State, c)) = {}
    /\ Debited(guardian_pause(State, c)) = {}
    /\ Debited(snapshot(State, c)) = {}
    /\ Debited(finalize_snapshot(State, c)) = {}
    /\ Debited(renounce_ownership(State, c)) = {}
    /\ Debited(accept_ownership(State, c, epoch)) = {}

\* in a spender call r by c on holder `from`, no balance but from's goes
\* down, and from's only by an amount within c's allowance
SpenderDebit(r, c, from) ==
    /\ Debited(r) \subseteq {from}
    /\ from \in Debited(r) =>
          allowances[from][c] >= balances[from] - r.st.balances[from]

\* C37: the balance of an account X decreases only in a call made by X
\* itself (transfer, batch_transfer, transfer_with_checks, burn) or in a
\* transfer_from, transfer_from_with_checks or burn_from call on X by a
\* spender whose allowance from X at the start of the call was at least the
\* amount debited; no other call, by the owner and role holders included,
\* lowers any balance.
C37_DebitsAreAuthorized ==
    \A c \in Callers :
        /\ OwnDebitsOnly(c)
        /\ NoDebits(c)
        /\ \A from \in Callers, to \in Recipients, a \in U256 :
              /\ SpenderDebit(transfer_from(State, c, from, to, a), c, from)
              /\ SpenderDebit(
                    transfer_from_with_checks(State, c, from, to, a), c, from)
              /\ SpenderDebit(burn_from(State, c, from, a), c, from)

\* C37 witness: the spender a2 has moved tokens out of a1's balance with
\* transfer_from (a1, the initial owner, is the only source of tokens and
\* a2 the only spender with an allowance).
C37_Witness ==
    /\ last = [op |-> "transfer_from", kind |-> "Ok"]
    /\ balances["a2"] > 0
    /\ balances["a1"] > 0
    /\ allowances["a1"]["a2"] > 0

\* the call with result r leaves the allowances given by every holder other
\* than o as they are
OnlyRow(r, o) ==
    \A x \in Address \ {o} : r.st.allowances[x] = allowances[x]

\* the call with result r raises no allowance
NoneRaised(r) ==
    \A x \in Address, s \in Address :
        r.st.allowances[x][s] <= allowances[x][s]

\* the call with result r changes no allowance but the one o gave to s
OnlyCell(r, o, s) ==
    /\ OnlyRow(r, o)
    /\ \A x \in Address \ {s} : r.st.allowances[o][x] = allowances[o][x]

\* the granting calls of caller c change allowances given by c only, and
\* decrease_allowance raises none
GrantsOwnOnly(c) ==
    /\ \A s \in Recipients, a \in U256 :
          /\ OnlyRow(approve(State, c, s, a), c)
          /\ OnlyRow(increase_allowance(State, c, s, a), c)
          /\ OnlyRow(decrease_allowance(State, c, s, a), c)
          /\ NoneRaised(decrease_allowance(State, c, s, a))
    /\ \A ss \in SeqsUpTo(BatchRecipients, MaxBatch), a \in BatchAmounts :
          OnlyRow(batch_approve(State, c, ss, [i \in 1..Len(ss) |-> a]), c)

\* the spending calls of caller c raise no allowance and lower only the one
\* `from` gave to c
SpendsOwnOnly(c) ==
    \A from \in Callers, to \in Recipients, a \in U256 :
        /\ OnlyCell(transfer_from(State, c, from, to, a), from, c)
        /\ NoneRaised(transfer_from(State, c, from, to, a))
        /\ OnlyCell(transfer_from_with_checks(State, c, from, to, a), from, c)
        /\ NoneRaised(transfer_from_with_checks(State, c, from, to, a))
        /\ OnlyCell(burn_from(State, c, from, a), from, c)
        /\ NoneRaised(burn_from(State, c, from, a))

\* the other calls of caller c, the owner's and the role holders' included,
\* leave every allowance as it is
AllowancesKept(c) ==
    /\ \A x \in Recipients, a \in U256 :
          /\ transfer(State, c, x, a).st.allowances = allowances
          /\ transfer_with_checks(State, c, x, a).st.allowances = allowances
          /\ mint(State, c, x, a).st.allowances = allowances
          /\ mint_with_checks(State, c, x, a).st.allowances = allowances
          /\ initialize(State, 18, a, x).st.allowances = allowances
    /\ \A x \in Recipients :
          /\ blacklist(State, c, x).st.allowances = allowances
          /\ transfer_ownership(State, c, x).st.allowances = allowances
          /\ \A role \in Roles :
                grant_role(State, c, role, x).st.allowances = allowances
    /\ \A a \in U256 : burn(State, c, a).st.allowances = allowances
    /\ pause(State, c).st.allowances = allowances
    /\ unpause(State, c).st.allowances = allowances
    /\ pause_with_role(State, c).st.allowances = allowances
    /\ guardian_pause(State, c).st.allowances = allowances
    /\ renounce_ownership(State, c).st.allowances = allowances
    /\ accept_ownership(State, c, epoch).st.allowances = allowances

\* C38: allowance[o][s] increases only in a call made by o itself (approve,
\* increase_allowance, batch_approve); a call by any other account, s, the
\* owner and role holders included, leaves it unchanged or lowers it, and it
\* is lowered for another account only by s consuming it in transfer_from,
\* transfer_from_with_checks or burn_from.
C38_AllowanceRaisedByHolderOnly ==
    \A c \in Callers :
        /\ GrantsOwnOnly(c)
        /\ SpendsOwnOnly(c)
        /\ AllowancesKept(c)

\* C38 witness: a1 has just approved a2 and holds tokens that a2 could
\* spend, while a2 has granted nothing to a1.
C38_Witness ==
    /\ last = [op |-> "approve", kind |-> "Ok"]
    /\ allowances["a1"]["a2"] > 0
    /\ allowances["a2"]["a1"] = 0
    /\ balances["a1"] > 0

\* the call with result r leaves the time-locked hand-over as it is
HandOverKept(r) ==
    /\ r.st.pending_owner = pending_owner
    /\ r.st.ownership_unlock_time = ownership_unlock_time

\* in the ledger S at the current time the pending owner, if there is one
\* and the unlock time is reached, accepts and becomes the owner
PendingCanAccept(S) ==
    (S.pending_owner # ZERO /\ epoch >= S.ownership_unlock_time) =>
        LET r == accept_ownership(S, S.pending_owner, epoch) IN
        /\ r.res = Ok
        /\ r.st.owner = S.pending_owner
        /\ r.st.pending_owner = ZERO
        /\ r.st.ownership_unlock_time = 0

\* transfer_ownership and renounce_ownership by any caller in the current
\* state keep the hand-over, and the pending owner can accept after them
C39_ImmediatePathsKeepHandOver ==
    /\ PendingCanAccept(State)
    /\ \A c \in Users :
          /\ HandOverKept(renounce_ownership(State, c))
          /\ PendingCanAccept(renounce_ownership(State, c).st)
          /\ \A n \in Address :
                /\ HandOverKept(transfer_ownership(State, c, n))
                /\ PendingCanAccept(transfer_ownership(State, c, n).st)

\* C39: transfer_ownership and renounce_ownership leave pending_owner and
\* ownership_unlock_time unchanged, so a transfer initiated earlier can
\* still be accepted by its pending owner once the unlock time is reached,
\* replacing whoever is owner at that moment, a null owner after a
\* renunciation included.
C39_HandOverSurvivesOwnerChange ==
    /\ []C39_ImmediatePathsKeepHandOver
    /\ [][last'.op \in {"transfer_ownership", "renounce_ownership"}
            => UNCHANGED <<pending_owner, ownership_unlock_time>>]_vars
    /\ [][(last' = [op |-> "accept_ownership", kind |-> "Ok"])
            => (pending_owner # ZERO /\ owner' = pending_owner)]_vars

\* C39 witness: the owner renounced while a hand-over was pending and the
\* unlock time has since been reached: the ledger has no owner and the
\* pending owner can accept.
C39_Witness ==
    /\ last = [op |-> "renounce_ownership", kind |-> "Ok"]
    /\ owner = ZERO
    /\ pending_owner = "a2"
    /\ ownership_unlock_time > 0
    /\ epoch >= ownership_unlock_time

\* the call with result r leaves role membership and role admins as they are
RolesKept(r) ==
    /\ r.st.roles = roles
    /\ r.st.role_admins = role_admins

\* in the ledger S the role-gated calls pass their role check for exactly
\* the accounts that hold the role in the current state
RoleCallsAsBefore(S) ==
    \A x \in Users :
        /\ \A to \in Recipients, a \in U256 :
              (mint_with_checks(S, x, to, a).res.kind # "AccessDenied")
                  <=> roles[MINTER_ROLE][x]
        /\ (pause_with_role(S, x).res.kind # "AccessDenied")
              <=> roles[PAUSER_ROLE][x]
        /\ \A role \in Roles, account \in Users :
              (grant_role(S, x, role, account).res.kind # "AccessDenied")
                  <=> roles[role_admins[role]][x]

\* the owner-changing calls by any caller in the current state keep every
\* role membership, and the role-gated calls are open afterwards to the
\* accounts they were open to before
C40_OwnerCallsKeepRoles ==
    \A c \in Users :
        /\ RolesKept(renounce_ownership(State, c))
        /\ RoleCallsAsBefore(renounce_ownership(State, c).st)
        /\ RolesKept(accept_ownership(State, c, epoch))
        /\ RoleCallsAsBefore(accept_ownership(State, c, epoch).st)
        /\ \A n \in Address :
              /\ RolesKept(transfer_ownership(State, c, n))
              /\ RoleCallsAsBefore(transfer_ownership(State, c, n).st)

\* C40: changing the owner never changes role membership: after
\* transfer_ownership, accept_ownership or renounce_ownership every
\* (role, account) membership is as before, so the previous owner keeps
\* ADMIN_ROLE, MINTER_ROLE and PAUSER_ROLE and can still call
\* mint_with_checks, pause_with_role and grant_role, and the new owner
\* holds no role it did not hold before.
C40_OwnerChangeKeepsRoles ==
    /\ []C40_OwnerCallsKeepRoles
    /\ [][last'.op \in {"transfer_ownership", "accept_ownership",
                        "renounce_ownership"}
            => UNCHANGED <<roles, role_admins>>]_vars
    /\ [][owner' # owner /\ initialized => UNCHANGED <<roles, role_admins>>]_vars

\* C40 witness: a2 has become owner by accept_ownership while a1, the
\* initial owner, still holds the three roles and a2 holds none.
C40_Witness ==
    /\ last = [op |-> "accept_ownership", kind |-> "Ok"]
    /\ owner = "a2"
    /\ \A role \in {ADMIN_ROLE, MINTER_ROLE, PAUSER_ROLE} :
          roles[role]["a1"] /\ ~roles[role]["a2"]

====
